---- MODULE Spec2Model ----
(***************************************************************************)
(* Pod lifecycle orchestrator of IntelligenceLayer: the cron-driven        *)
(* auto_deploy.sh (Deploy Poller) and backup.sh (Backup Manager), the      *)
(* flock leases they coordinate through, the git working tree they share,  *)
(* and the .env redaction performed by the backup.                         *)
(***************************************************************************)
EXTENDS Integers, Sequences, FiniteSets, TLC

(* ---------------------------- bounds ---------------------------------- *)
MaxRev == 2        \* commits that upstream pushes to origin/main
MaxJobs == 1       \* training runs with status='running' in studio.db
MaxTime == 1       \* seconds the wall clock advances
MaxCommits == 2    \* commits on the backups/pod-data branch
MaxLineLen == 4    \* tokens per .env line in the redaction inputs
MaxData == 2       \* versions of the content of a data directory (0 is empty)
MaxCronLines == 3   \* lines of a crontab the operator has edited

DeployProcs == {"d1", "d2"}     \* overlapping cron invocations of auto_deploy.sh
BackupProcs == {"b1", "b2"}     \* overlapping cron invocations of backup.sh

Free == "free"
\* a file that may be missing is a sequence of at most one content
Absent == <<>>
NoExit == <<>>
NoBranch == [commits |-> 0, tip |-> <<>>]

(* path prefixes that auto_deploy.sh greps for in the changed-file list *)
WebPrefix == "web/"
PyprojectPath == "pyproject.toml"
ApiPrefix == "api/"
FrontendPrefix == "frontend/"
SupervisorPrefix == "scripts/supervisor/"
OtherPath == "docs/"

Services == {"wybe-web", "wybe-api", "wybe-studio"}

AllPaths ==
    {WebPrefix, PyprojectPath, ApiPrefix, FrontendPrefix, SupervisorPrefix, OtherPath}

(* the change sets a single upstream commit may carry *)
ChangeSets ==
    {{WebPrefix}, {PyprojectPath, ApiPrefix}, {SupervisorPrefix, OtherPath}}

VARIABLES
    \* ---- shared machine state ----
    deployLock,      \* holder of the flock on /tmp/wybe_deploy.lock
    backupLock,      \* holder of the flock on /tmp/wybe_backup.lock
    deployLockFile,  \* /tmp/wybe_deploy.lock exists
    remoteRev,       \* main on the remote
    originMain,      \* refs/remotes/origin/main in the local clone
    mainRev,         \* revision of main that refs/heads/main contains
    mainExtra,       \* local-only commits on top of it on refs/heads/main
    commitPaths,     \* paths touched by each commit of main
    curBranch,       \* branch the working tree is on
    webBuilt,        \* revision the built web assets were produced from
    depsInstalled,   \* revision the installed python packages were produced from
    dbExists,        \* $HOME/.wybe_studio/studio.db exists
    hasSqlite3,      \* the sqlite3 binary is on PATH
    activeJobs,      \* rows of runs with status='running'
    now,             \* wall clock, in seconds
    envFile,         \* lines of $PROJECT_DIR/.env
    lastExit,        \* the script whose invocation the last step ended and how, if any
    \* ---- auto_deploy.sh invocations ----
    dpc,             \* where each invocation stands in the script
    ddone,           \* the commands with outside effect an invocation has run
    LOCAL_SHA, REMOTE_SHA, CHANGED, RESTART_SERVICES, REBUILT,
    \* ---- backup.sh invocations ----
    bpc, CURRENT_BRANCH,
    staging,         \* content of $PROJECT_DIR/.pod-backup (empty when absent)
    backupBranch,    \* refs/heads/backups/pod-data: number of commits, tree of the tip
    remoteBackup,    \* backups/pod-data on the remote, likewise
    \* ---- restore_backup.sh ----
    rpc,             \* where the restore invocation stands in the script
    dbPre,           \* content of studio.db.pre-restore, or Absent
    envPre,          \* content of .env.pre-restore, or Absent
    \* ---- supervisor ----
    supervisorUp,    \* supervisord is running (pgrep -x supervisord)
    svcUp,           \* the supervised services that are running
    \* ---- setup_volume.sh ----
    mpc,             \* where the migrator invocation stands in the script
    mdone,           \* the commands with outside effect the invocation has run
    volumeAttached,  \* /runpod-volume is a directory
    studioPath,      \* ~/.wybe_studio: "dir", "link" or "absent"
    studioData,      \* content of ~/.wybe_studio while it is a plain directory
    studioBak,       \* ~/.wybe_studio.bak: the directories moved there, oldest first
    volStudio,       \* content of /runpod-volume/wybe_data/studio
    checkpointPath,  \* $PROJECT_DIR/checkpoints, like studioPath
    checkpointData,
    checkpointBak,
    volCheckpoints,  \* content of /runpod-volume/wybe_data/checkpoints
    logsPath,        \* /tmp/intelligenceLayer_logs: "dir", "dirlinked", "link", "absent"
    \* ---- health_monitor.sh ----
    hpc,             \* where the health cycle stands in the script
    hsvc,            \* the service whose restart and second probe are under way
    STATUS,          \* the STATUS array of the cycle ("unknown" while unset)
    probes,          \* the results of the curl probes of the cycle, per service
    hrestarts,       \* the restarts the cycle has requested, per service
    statusFile,      \* the "services" object of health_status.json, if written
    \* ---- startup.sh ----
    crontab,         \* the lines of root's crontab
    spc,             \* where the startup.sh run is
    strace,          \* the stages the startup.sh run has entered, in order
    envPresent       \* [ -f .env ] as startup.sh tests it

lockVars == <<deployLock, backupLock, deployLockFile>>
gitVars == <<remoteRev, originMain, mainRev, mainExtra, commitPaths, curBranch>>
buildVars == <<webBuilt, depsInstalled>>
restoreVars == <<rpc, dbPre, envPre>>
\* what the operator-run tools add to the pod's state
serviceVars == <<supervisorUp, svcUp>>
studioVars == <<studioPath, studioData, studioBak, volStudio>>
checkpointVars == <<checkpointPath, checkpointData, checkpointBak, volCheckpoints>>
migrateVars == <<mpc, mdone, volumeAttached, studioVars, checkpointVars, logsPath>>
healthVars == <<hpc, hsvc, STATUS, probes, hrestarts, statusFile>>
bootVars == <<spc, strace, envPresent>>
cronVars == <<crontab, bootVars>>
toolVars == <<restoreVars, serviceVars, migrateVars, healthVars, cronVars>>
podVars == <<dbExists, hasSqlite3, activeJobs, now, envFile, toolVars>>
sharedVars == <<lockVars, gitVars, buildVars, podVars>>
deployVars ==
    <<dpc, LOCAL_SHA, REMOTE_SHA, CHANGED, RESTART_SERVICES, REBUILT, ddone>>
backupVars == <<bpc, CURRENT_BRANCH, staging, backupBranch, remoteBackup>>
vars == <<sharedVars, deployVars, backupVars, lastExit>>

(* ------------------------ git helpers --------------------------------- *)
\* Commits of backups/pod-data are numbered below zero so that they never
\* coincide with a revision of main; -1 is the unborn HEAD of a fresh orphan.
Unborn == 0 - 1
BackupRev(k) == 0 - (k + 1)

\* git rev-parse HEAD
\* A main that carries local-only commits is numbered 10 * mainExtra above the
\* upstream revision it is based on.
HEAD ==
    IF curBranch = "main" THEN mainRev + 10 * mainExtra
    ELSE BackupRev(backupBranch.commits)

\* git diff --name-only a b, b a revision of origin/main
DiffNames(a, b) ==
    IF a < 0 THEN AllPaths
    ELSE IF a >= 10 THEN {OtherPath} \cup UNION {commitPaths[r] : r \in ((a % 10) + 1)..b}
    ELSE UNION {commitPaths[r] : r \in (a + 1)..b}

(* ------------------------ exit statuses ------------------------------- *)
\* the ways the scripts end through an explicit exit 0 or by running off their
\* last line; every other end is an exit 1, a command failing under set -e, or
\* a signal
SuccessExits ==
    {"contended", "nochange", "gated", "success", "deploybusy", "nodb", "done",
     "novolume"}
ExitStatus(reason) == IF reason \in SuccessExits THEN 0 ELSE 1

\* the ends that write no line: the silent exit 0 on an unchanged revision, a
\* rev-parse that fails under set -e, a signal; every other end runs log or err
SilentExits == {"nochange", "revparsefail", "crash"}
LogsOnExit(reason) == reason \notin SilentExits

\* log "New commits detected: $LOCAL -> $REMOTE" is behind the invocation
Logged(p) == dpc[p] \in {"gate", "pull", "web", "deps", "supervisor", "restart", "done"}

(* ------------------------ flock helpers ------------------------------- *)
\* the kernel drops a flock when the process that holds the descriptor exits
ReleasedAtExit(lock, proc) == IF lock = proc THEN Free ELSE lock

(* ------------------------ auto_deploy.sh ------------------------------ *)
NoLocals(p) ==
    /\ LOCAL_SHA' = [LOCAL_SHA EXCEPT ![p] = 0]
    /\ REMOTE_SHA' = [REMOTE_SHA EXCEPT ![p] = 0]
    /\ CHANGED' = [CHANGED EXCEPT ![p] = {}]
    /\ RESTART_SERVICES' = [RESTART_SERVICES EXCEPT ![p] = {}]
    /\ REBUILT' = [REBUILT EXCEPT ![p] = {}]
    /\ ddone' = [ddone EXCEPT ![p] = {}]

\* faulty variant: a lock that outlives its process, as a lock file without cleanup would
DeployExitKeepsLock(p, reason) ==
    /\ dpc' = [dpc EXCEPT ![p] = "idle"]
    /\ lastExit' = <<"deploy", reason>>
    /\ UNCHANGED deployLock
    /\ NoLocals(p)

\* process exit: status recorded, descriptor 200 closed
DeployExit(p, reason) ==
    /\ dpc' = [dpc EXCEPT ![p] = "idle"]
    /\ lastExit' = <<"deploy", reason>>
    /\ deployLock' = ReleasedAtExit(deployLock, p)
    /\ NoLocals(p)

\* cron starts the script; exec 200>"$LOCK_FILE" creates the lock file
DeployStart(p) ==
    /\ dpc[p] = "idle"
    /\ dpc' = [dpc EXCEPT ![p] = "lock"]
    /\ deployLockFile' = TRUE
    /\ lastExit' = NoExit
    /\ UNCHANGED <<LOCAL_SHA, REMOTE_SHA, CHANGED, RESTART_SERVICES, REBUILT, ddone>>
    /\ UNCHANGED <<deployLock, backupLock, gitVars, buildVars, podVars>>
    /\ UNCHANGED backupVars

\* faulty variant: the result of flock is ignored: the script goes on without the lease
DeployAcquireUnchecked(p) ==
    /\ dpc[p] = "lock"
    /\ deployLock' = IF deployLock = Free THEN p ELSE deployLock
    /\ dpc' = [dpc EXCEPT ![p] = "fetch"]
    /\ lastExit' = NoExit
    /\ UNCHANGED <<LOCAL_SHA, REMOTE_SHA, CHANGED, RESTART_SERVICES,
                   REBUILT, ddone>>
    /\ UNCHANGED <<backupLock, deployLockFile, gitVars, buildVars, podVars>>
    /\ UNCHANGED backupVars

\* if ! flock -n 200; then log ...; exit 0; fi
DeployAcquire(p) ==
    /\ dpc[p] = "lock"
    /\ IF deployLock = Free
       THEN /\ deployLock' = p
            /\ dpc' = [dpc EXCEPT ![p] = "fetch"]
            /\ lastExit' = NoExit
            /\ UNCHANGED <<LOCAL_SHA, REMOTE_SHA, CHANGED, RESTART_SERVICES,
                           REBUILT, ddone>>
       ELSE DeployExit(p, "contended")
    /\ UNCHANGED <<backupLock, deployLockFile, gitVars, buildVars, podVars>>
    /\ UNCHANGED backupVars

\* git fetch origin main --quiet || { err "git fetch failed"; exit 1; }
DeployFetch(p) ==
    /\ dpc[p] = "fetch"
    /\ \E ok \in BOOLEAN :
         IF ok
         THEN /\ originMain' = remoteRev
              /\ dpc' = [dpc EXCEPT ![p] = "compare"]
              /\ lastExit' = NoExit
              /\ UNCHANGED <<deployLock, LOCAL_SHA, REMOTE_SHA, CHANGED,
                             RESTART_SERVICES, REBUILT, ddone>>
         ELSE /\ DeployExit(p, "fetchfail")
              /\ UNCHANGED originMain
    /\ UNCHANGED <<backupLock, deployLockFile, remoteRev, mainRev, mainExtra,
                   commitPaths, curBranch, buildVars, podVars>>
    /\ UNCHANGED backupVars

\* faulty variant: the equality test is dropped: every tick goes on to deploy
DeployCompareAlways(p) ==
    /\ dpc[p] = "compare"
    /\ IF HEAD = Unborn
       THEN DeployExit(p, "revparsefail")
       ELSE /\ LOCAL_SHA' = [LOCAL_SHA EXCEPT ![p] = HEAD]
            /\ REMOTE_SHA' = [REMOTE_SHA EXCEPT ![p] = originMain]
            /\ dpc' = [dpc EXCEPT ![p] = "gate"]
            /\ lastExit' = NoExit
            /\ UNCHANGED <<deployLock, CHANGED, RESTART_SERVICES,
                           REBUILT, ddone>>
    /\ UNCHANGED <<backupLock, deployLockFile, gitVars, buildVars, podVars>>
    /\ UNCHANGED backupVars

\* faulty variant: an unchanged revision is reported with a log line
DeployCompareLoud(p) ==
    /\ dpc[p] = "compare"
    /\ IF HEAD = Unborn
       THEN DeployExit(p, "revparsefail")
       ELSE IF HEAD = originMain
       THEN DeployExit(p, "uptodate")
       ELSE /\ LOCAL_SHA' = [LOCAL_SHA EXCEPT ![p] = HEAD]
            /\ REMOTE_SHA' = [REMOTE_SHA EXCEPT ![p] = originMain]
            /\ dpc' = [dpc EXCEPT ![p] = "gate"]
            /\ lastExit' = NoExit
            /\ UNCHANGED <<deployLock, CHANGED, RESTART_SERVICES,
                           REBUILT, ddone>>
    /\ UNCHANGED <<backupLock, deployLockFile, gitVars, buildVars, podVars>>
    /\ UNCHANGED backupVars

\* LOCAL=$(git rev-parse HEAD); REMOTE=$(git rev-parse origin/main);
\* equal: silent exit 0.  rev-parse fails on an unborn HEAD and set -e ends the run.
DeployCompare(p) ==
    /\ dpc[p] = "compare"
    /\ IF HEAD = Unborn
       THEN DeployExit(p, "revparsefail")
       ELSE IF HEAD = originMain
       THEN DeployExit(p, "nochange")
       ELSE /\ LOCAL_SHA' = [LOCAL_SHA EXCEPT ![p] = HEAD]
            /\ REMOTE_SHA' = [REMOTE_SHA EXCEPT ![p] = originMain]
            /\ dpc' = [dpc EXCEPT ![p] = "gate"]
            /\ lastExit' = NoExit
            /\ UNCHANGED <<deployLock, CHANGED, RESTART_SERVICES,
                           REBUILT, ddone>>
    /\ UNCHANGED <<backupLock, deployLockFile, gitVars, buildVars, podVars>>
    /\ UNCHANGED backupVars

\* the count the gate reads: the query's answer, or 0 when the database file or
\* the sqlite3 binary is missing or the query fails  ( ... || echo "0" )
GateCount(queryOk) ==
    IF dbExists /\ hasSqlite3 /\ queryOk THEN activeJobs ELSE 0

\* if [ -f "$DB_PATH" ] && command -v sqlite3; then
\*     RUNNING=$(sqlite3 ... "SELECT count(*) ..." 2>/dev/null || echo "0")
\*     if [ "$RUNNING" -gt 0 ]; then log "Skipping deploy"; exit 0; fi
\* fi
\* CHANGED=$(git diff --name-only "$LOCAL" "$REMOTE")
DeployGate(p) ==
    /\ dpc[p] = "gate"
    /\ \E queryOk \in BOOLEAN :
         IF GateCount(queryOk) > 0
         THEN DeployExit(p, "gated")
         ELSE /\ CHANGED' = [CHANGED EXCEPT ![p] = DiffNames(LOCAL_SHA[p], REMOTE_SHA[p])]
              /\ dpc' = [dpc EXCEPT ![p] = "pull"]
              /\ lastExit' = NoExit
              /\ UNCHANGED <<deployLock, LOCAL_SHA, REMOTE_SHA, RESTART_SERVICES,
                             REBUILT, ddone>>
    /\ UNCHANGED <<backupLock, deployLockFile, gitVars, buildVars, podVars>>
    /\ UNCHANGED backupVars

\* faulty variant: a pull without --ff-only, which puts the remote's main in
\* place of a local history it cannot fast-forward
DeployPullOverwrites(p) ==
    /\ dpc[p] = "pull"
    /\ \E net \in BOOLEAN, ff \in BOOLEAN :
         /\ originMain' = IF net THEN remoteRev ELSE originMain
         /\ IF net /\ ff /\ curBranch = "main"
            THEN /\ mainRev' = remoteRev
                 /\ mainExtra' = 0
                 /\ ddone' = [ddone EXCEPT ![p] = @ \cup {"pull"}]
                 /\ dpc' = [dpc EXCEPT ![p] = "web"]
                 /\ lastExit' = NoExit
                 /\ UNCHANGED <<deployLock, LOCAL_SHA, REMOTE_SHA, CHANGED,
                                RESTART_SERVICES, REBUILT>>
            ELSE /\ DeployExit(p, "pullfail")
                 /\ UNCHANGED <<mainRev, mainExtra>>
    /\ UNCHANGED <<backupLock, deployLockFile, remoteRev, commitPaths,
                   curBranch, buildVars, podVars>>
    /\ UNCHANGED backupVars

\* if ! git pull --ff-only origin main; then err ...; exit 1; fi
\* The pull fetches again, so it lands on whatever main is on the remote now.
\* It cannot fast-forward a branch that is not main, nor a diverged history.
DeployPull(p) ==
    /\ dpc[p] = "pull"
    /\ \E net \in BOOLEAN, ff \in BOOLEAN :
         /\ originMain' = IF net THEN remoteRev ELSE originMain
         /\ IF net /\ ff /\ curBranch = "main" /\ (mainExtra = 0 \/ remoteRev = mainRev)
            THEN /\ mainRev' = remoteRev
                 /\ ddone' = [ddone EXCEPT ![p] = @ \cup {"pull"}]
                 /\ dpc' = [dpc EXCEPT ![p] = "web"]
                 /\ lastExit' = NoExit
                 /\ UNCHANGED <<deployLock, LOCAL_SHA, REMOTE_SHA, CHANGED,
                                RESTART_SERVICES, REBUILT>>
            ELSE /\ DeployExit(p, "pullfail")
                 /\ UNCHANGED mainRev
    /\ UNCHANGED <<backupLock, deployLockFile, remoteRev, mainExtra, commitPaths,
                   curBranch, buildVars, podVars>>
    /\ UNCHANGED backupVars

\* faulty variant: wybe-web is restarted as soon as its build is done
DeployWebRestartsFirst(p) ==
    /\ dpc[p] = "web"
    /\ IF WebPrefix \in CHANGED[p]
       THEN \E ok \in BOOLEAN :
              IF ok /\ curBranch = "main"
              THEN /\ webBuilt' = mainRev
                   /\ REBUILT' = [REBUILT EXCEPT ![p] = @ \cup {"web"}]
                   /\ RESTART_SERVICES' = [RESTART_SERVICES EXCEPT ![p] = @ \cup {"wybe-web"}]
                   /\ ddone' = [ddone EXCEPT ![p] = @ \cup {"webbuild", "restart"}]
                   /\ dpc' = [dpc EXCEPT ![p] = "deps"]
                   /\ lastExit' = NoExit
                   /\ UNCHANGED <<deployLock, LOCAL_SHA, REMOTE_SHA, CHANGED>>
              ELSE /\ DeployExit(p, "buildfail")
                   /\ UNCHANGED webBuilt
       ELSE /\ dpc' = [dpc EXCEPT ![p] = "deps"]
            /\ lastExit' = NoExit
            /\ UNCHANGED <<webBuilt, deployLock, LOCAL_SHA, REMOTE_SHA, CHANGED,
                           RESTART_SERVICES, REBUILT, ddone>>
    /\ UNCHANGED <<backupLock, deployLockFile, gitVars, depsInstalled, podVars>>
    /\ UNCHANGED backupVars

\* if echo "$CHANGED" | grep -q "^web/"; then
\*     if (cd web && npm ci && npm run build); then REBUILT+=web; RESTART+=wybe-web
\*     else err "Next.js build failed"; exit 1
\* The build reads web/ of the working tree, which only main carries.
DeployWeb(p) ==
    /\ dpc[p] = "web"
    /\ IF WebPrefix \in CHANGED[p]
       THEN \E ok \in BOOLEAN :
              IF ok /\ curBranch = "main"
              THEN /\ webBuilt' = mainRev
                   /\ REBUILT' = [REBUILT EXCEPT ![p] = @ \cup {"web"}]
                   /\ RESTART_SERVICES' = [RESTART_SERVICES EXCEPT ![p] = @ \cup {"wybe-web"}]
                   /\ ddone' = [ddone EXCEPT ![p] = @ \cup {"webbuild"}]
                   /\ dpc' = [dpc EXCEPT ![p] = "deps"]
                   /\ lastExit' = NoExit
                   /\ UNCHANGED <<deployLock, LOCAL_SHA, REMOTE_SHA, CHANGED>>
              ELSE /\ DeployExit(p, "buildfail")
                   /\ UNCHANGED webBuilt
       ELSE /\ dpc' = [dpc EXCEPT ![p] = "deps"]
            /\ lastExit' = NoExit
            /\ UNCHANGED <<webBuilt, deployLock, LOCAL_SHA, REMOTE_SHA, CHANGED,
                           RESTART_SERVICES, REBUILT, ddone>>
    /\ UNCHANGED <<backupLock, deployLockFile, gitVars, depsInstalled, podVars>>
    /\ UNCHANGED backupVars

\* services marked for a restart by source changes alone
\* grep -q "^api/" -> wybe-api ; grep -q "^frontend/" -> wybe-studio
SourceRestarts(changed) ==
    (IF ApiPrefix \in changed THEN {"wybe-api"} ELSE {})
        \cup (IF FrontendPrefix \in changed THEN {"wybe-studio"} ELSE {})

\* if echo "$CHANGED" | grep -q "^pyproject\.toml"; then
\*     if uv pip install -e ... || pip install -e ...; then REBUILT+=python-deps
\*     else err "Python install failed"; exit 1
\* followed by the api/ and frontend/ marks
DeployDeps(p) ==
    /\ dpc[p] = "deps"
    /\ IF PyprojectPath \in CHANGED[p]
       THEN \E ok \in BOOLEAN :
              IF ok /\ curBranch = "main"
              THEN /\ depsInstalled' = mainRev
                   /\ REBUILT' = [REBUILT EXCEPT ![p] = @ \cup {"python-deps"}]
                   /\ RESTART_SERVICES' =
                        [RESTART_SERVICES EXCEPT ![p] = @ \cup SourceRestarts(CHANGED[p])]
                   /\ ddone' = [ddone EXCEPT ![p] = @ \cup {"depinstall"}]
                   /\ dpc' = [dpc EXCEPT ![p] = "supervisor"]
                   /\ lastExit' = NoExit
                   /\ UNCHANGED <<deployLock, LOCAL_SHA, REMOTE_SHA, CHANGED>>
              ELSE /\ DeployExit(p, "buildfail")
                   /\ UNCHANGED depsInstalled
       ELSE /\ RESTART_SERVICES' =
                 [RESTART_SERVICES EXCEPT ![p] = @ \cup SourceRestarts(CHANGED[p])]
            /\ dpc' = [dpc EXCEPT ![p] = "supervisor"]
            /\ lastExit' = NoExit
            /\ UNCHANGED <<depsInstalled, deployLock, LOCAL_SHA, REMOTE_SHA,
                           CHANGED, REBUILT, ddone>>
    /\ UNCHANGED <<backupLock, deployLockFile, gitVars, webBuilt, podVars>>
    /\ UNCHANGED backupVars

\* if echo "$CHANGED" | grep -q "^scripts/supervisor/"; then
\*     cp scripts/supervisor/*.conf ... || true; supervisorctl reread/update || true
DeploySupervisor(p) ==
    /\ dpc[p] = "supervisor"
    /\ IF SupervisorPrefix \in CHANGED[p]
       THEN /\ REBUILT' = [REBUILT EXCEPT ![p] = @ \cup {"supervisor-configs"}]
            /\ ddone' = [ddone EXCEPT ![p] = @ \cup {"supconf"}]
       ELSE UNCHANGED <<REBUILT, ddone>>
    /\ dpc' = [dpc EXCEPT ![p] = "restart"]
    /\ lastExit' = NoExit
    /\ UNCHANGED <<LOCAL_SHA, REMOTE_SHA, CHANGED, RESTART_SERVICES>>
    /\ UNCHANGED sharedVars
    /\ UNCHANGED backupVars

\* the marks an invocation leaves for a restart it requested and for the
\* warning it logged when that restart failed
RestartMark(svc) ==
    CASE svc = "wybe-web" -> "restart wybe-web"
      [] svc = "wybe-api" -> "restart wybe-api"
      [] svc = "wybe-studio" -> "restart wybe-studio"
WarnMark(svc) ==
    CASE svc = "wybe-web" -> "warn wybe-web"
      [] svc = "wybe-api" -> "warn wybe-api"
      [] svc = "wybe-studio" -> "warn wybe-studio"

\* faulty variant: a restart that fails ends the script, as set -e does to a
\* command that is not guarded by ||
DeployRestartStopsOnFailure(p) ==
    /\ dpc[p] = "restart"
    /\ \E failed \in SUBSET RESTART_SERVICES[p] :
         IF failed = {}
         THEN /\ ddone' = [ddone EXCEPT ![p] =
                             @ \cup (IF RESTART_SERVICES[p] # {} THEN {"restart"} ELSE {})
                               \cup {RestartMark(svc) : svc \in RESTART_SERVICES[p]}]
              /\ dpc' = [dpc EXCEPT ![p] = "done"]
              /\ lastExit' = NoExit
              /\ UNCHANGED <<deployLock, LOCAL_SHA, REMOTE_SHA, CHANGED, RESTART_SERVICES,
                             REBUILT>>
         ELSE DeployExit(p, "restartfail")
    /\ UNCHANGED <<backupLock, deployLockFile, gitVars, buildVars, podVars>>
    /\ UNCHANGED backupVars

\* if [ -n "$RESTART_SERVICES" ]; then
\*     for svc in $RESTART_SERVICES; do supervisorctl restart "$svc" || warn ...; done
DeployRestart(p) ==
    /\ dpc[p] = "restart"
    /\ \E failed \in SUBSET RESTART_SERVICES[p] :
         ddone' = [ddone EXCEPT ![p] =
                      @ \cup (IF RESTART_SERVICES[p] # {} THEN {"restart"} ELSE {})
                        \cup {RestartMark(svc) : svc \in RESTART_SERVICES[p]}
                        \cup {WarnMark(svc) : svc \in failed}]
    /\ dpc' = [dpc EXCEPT ![p] = "done"]
    /\ lastExit' = NoExit
    /\ UNCHANGED <<LOCAL_SHA, REMOTE_SHA, CHANGED, RESTART_SERVICES,
                   REBUILT>>
    /\ UNCHANGED sharedVars
    /\ UNCHANGED backupVars

\* log "Deploy complete: ..."; the script ends with status 0
DeployDone(p) ==
    /\ dpc[p] = "done"
    /\ DeployExit(p, "success")
    /\ UNCHANGED <<backupLock, deployLockFile, gitVars, buildVars, podVars>>
    /\ UNCHANGED backupVars

\* the process is killed or dies at any point after it started
DeployCrash(p) ==
    /\ dpc[p] # "idle"
    /\ DeployExit(p, "crash")
    /\ UNCHANGED <<backupLock, deployLockFile, gitVars, buildVars, podVars>>
    /\ UNCHANGED backupVars

(* ------------------------ environment --------------------------------- *)
\* upstream pushes a commit to main
UpstreamPush ==
    /\ remoteRev < MaxRev
    /\ \E cs \in ChangeSets :
         commitPaths' = [commitPaths EXCEPT ![remoteRev + 1] = cs]
    /\ remoteRev' = remoteRev + 1
    /\ UNCHANGED <<lockVars, originMain, mainRev, mainExtra, curBranch, buildVars,
                   podVars>>
    /\ UNCHANGED <<deployVars, backupVars>>
    /\ lastExit' = NoExit

\* somebody commits on main in the pod's clone ("local changes conflict with
\* remote ... SSH into the pod and resolve manually")
LocalCommit ==
    /\ curBranch = "main"
    /\ mainExtra < MaxCommits - 1
    /\ mainExtra' = mainExtra + 1
    /\ UNCHANGED <<lockVars, remoteRev, originMain, mainRev, commitPaths, curBranch,
                   buildVars, podVars>>
    /\ UNCHANGED <<deployVars, backupVars>>
    /\ lastExit' = NoExit

\* the studio starts a training run (a row with status='running')
JobStart ==
    /\ dbExists
    /\ activeJobs < MaxJobs
    /\ activeJobs' = activeJobs + 1
    /\ UNCHANGED <<lockVars, gitVars, buildVars, dbExists, hasSqlite3, now, envFile,
                   toolVars>>
    /\ UNCHANGED <<deployVars, backupVars>>
    /\ lastExit' = NoExit

\* a training run finishes
JobEnd ==
    /\ activeJobs > 0
    /\ activeJobs' = activeJobs - 1
    /\ UNCHANGED <<lockVars, gitVars, buildVars, dbExists, hasSqlite3, now, envFile,
                   toolVars>>
    /\ UNCHANGED <<deployVars, backupVars>>
    /\ lastExit' = NoExit

\* the studio creates its database on first start
CreateDb ==
    /\ ~dbExists
    /\ dbExists' = TRUE
    /\ UNCHANGED <<lockVars, gitVars, buildVars, hasSqlite3, activeJobs, now, envFile,
                   toolVars>>
    /\ UNCHANGED <<deployVars, backupVars>>
    /\ lastExit' = NoExit

\* an operator installs the sqlite3 command line tool (startup.sh does not)
InstallSqlite3 ==
    /\ ~hasSqlite3
    /\ hasSqlite3' = TRUE
    /\ UNCHANGED <<lockVars, gitVars, buildVars, dbExists, activeJobs, now, envFile,
                   toolVars>>
    /\ UNCHANGED <<deployVars, backupVars>>
    /\ lastExit' = NoExit

\* the wall clock moves to the next second
ClockTick ==
    /\ now < MaxTime
    /\ now' = now + 1
    /\ UNCHANGED <<lockVars, gitVars, buildVars, dbExists, hasSqlite3, activeJobs, envFile,
                   toolVars>>
    /\ UNCHANGED <<deployVars, backupVars>>
    /\ lastExit' = NoExit

(* ------------------------ backup.sh: redaction ------------------------ *)
\* A line of .env is a sequence of tokens: key names, "=", and value pieces.
SecretKeys == {"ANTHROPIC_API_KEY", "WYBE_API_KEY"}
RedactedToken == "REDACTED"

\* positions where  key=  is followed by at least one more character:  (KEY=).+
SedMatches(key, line) ==
    {i \in 1..Len(line) : /\ i + 2 <= Len(line)
                          /\ line[i] = key
                          /\ line[i + 1] = "="}

\* faulty variant: the expression anchored to the start of the line:  ^(KEY=).+
SedRedactAnchored(key, line) ==
    IF 1 \in SedMatches(key, line)
    THEN SubSeq(line, 1, 2) \o <<RedactedToken>>
    ELSE line

\* sed -E 's/(KEY=).+/\1REDACTED/' on one line: the leftmost match is replaced,
\* everything before it is kept
SedRedact(key, line) ==
    IF SedMatches(key, line) = {} THEN line
    ELSE LET i == CHOOSE j \in SedMatches(key, line) :
                      \A k \in SedMatches(key, line) : j <= k
         IN  SubSeq(line, 1, i + 1) \o <<RedactedToken>>

\* faulty variant: the second sed of the pipe is missing
RedactAnthropicOnly(file) ==
    [n \in 1..Len(file) |-> SedRedact("ANTHROPIC_API_KEY", file[n])]

\* sed ANTHROPIC_API_KEY | sed WYBE_API_KEY > .pod-backup/env
Redact(file) ==
    [n \in 1..Len(file) |->
        SedRedact("WYBE_API_KEY", SedRedact("ANTHROPIC_API_KEY", file[n]))]

(* ------------------------ backup.sh ----------------------------------- *)
\* process exit: descriptor 201 closed, and the flock child on the deploy lock
\* file dies with it
BackupExit(q, reason) ==
    /\ bpc' = [bpc EXCEPT ![q] = "idle"]
    /\ lastExit' = <<"backup", reason>>
    /\ backupLock' = ReleasedAtExit(backupLock, q)
    /\ deployLock' = ReleasedAtExit(deployLock, q)
    /\ CURRENT_BRANCH' = [CURRENT_BRANCH EXCEPT ![q] = "main"]

\* cron starts the script; exec 201>"$LOCK_FILE"
BackupStart(q) ==
    /\ bpc[q] = "idle"
    /\ backupBranch.commits + mainExtra < MaxCommits
    /\ bpc' = [bpc EXCEPT ![q] = "lock"]
    /\ lastExit' = NoExit
    /\ UNCHANGED <<CURRENT_BRANCH, staging, backupBranch, remoteBackup>>
    /\ UNCHANGED <<sharedVars, deployVars>>

\* faulty variant: the result of flock is ignored: the script goes on without the lease
BackupAcquireUnchecked(q) ==
    /\ bpc[q] = "lock"
    /\ backupLock' = IF backupLock = Free THEN q ELSE backupLock
    /\ bpc' = [bpc EXCEPT ![q] = "test"]
    /\ lastExit' = NoExit
    /\ UNCHANGED <<deployLock, CURRENT_BRANCH>>
    /\ UNCHANGED <<staging, backupBranch, remoteBackup>>
    /\ UNCHANGED <<deployLockFile, gitVars, buildVars, podVars, deployVars>>

\* if ! flock -n 201; then log "Another backup is running"; exit 0; fi
BackupAcquire(q) ==
    /\ bpc[q] = "lock"
    /\ IF backupLock = Free
       THEN /\ backupLock' = q
            /\ bpc' = [bpc EXCEPT ![q] = "test"]
            /\ lastExit' = NoExit
            /\ UNCHANGED <<deployLock, CURRENT_BRANCH>>
       ELSE BackupExit(q, "contended")
    /\ UNCHANGED <<staging, backupBranch, remoteBackup>>
    /\ UNCHANGED <<deployLockFile, gitVars, buildVars, podVars, deployVars>>

\* if [ -f /tmp/wybe_deploy.lock ]; then
\*     if ! flock -n -x 200 200>/tmp/wybe_deploy.lock; then log ...; exit 0; fi
\* The flock child takes the deploy lock for as long as it lives.
BackupTest(q) ==
    /\ bpc[q] = "test"
    /\ IF deployLockFile
       THEN IF deployLock = Free
            THEN /\ deployLock' = q
                 /\ bpc' = [bpc EXCEPT ![q] = "testheld"]
                 /\ lastExit' = NoExit
                 /\ UNCHANGED <<backupLock, CURRENT_BRANCH>>
            ELSE BackupExit(q, "deploybusy")
       ELSE /\ bpc' = [bpc EXCEPT ![q] = "stage"]
            /\ lastExit' = NoExit
            /\ UNCHANGED <<deployLock, backupLock, CURRENT_BRANCH>>
    /\ UNCHANGED <<staging, backupBranch, remoteBackup>>
    /\ UNCHANGED <<deployLockFile, gitVars, buildVars, podVars, deployVars>>

\* faulty variant: the test lock is taken on a descriptor of the script itself and never closed
BackupTestKeeps(q) ==
    /\ bpc[q] = "testheld"
    /\ bpc' = [bpc EXCEPT ![q] = "stage"]
    /\ lastExit' = NoExit
    /\ UNCHANGED <<CURRENT_BRANCH, staging, backupBranch, remoteBackup>>
    /\ UNCHANGED <<deployLock, backupLock, deployLockFile, gitVars, buildVars, podVars,
                   deployVars>>

\* the flock child exits (and exec 200>&- follows): the test lock is gone
BackupTestRelease(q) ==
    /\ bpc[q] = "testheld"
    /\ deployLock' = ReleasedAtExit(deployLock, q)
    /\ bpc' = [bpc EXCEPT ![q] = "stage"]
    /\ lastExit' = NoExit
    /\ UNCHANGED <<CURRENT_BRANCH, staging, backupBranch, remoteBackup>>
    /\ UNCHANGED <<backupLock, deployLockFile, gitVars, buildVars, podVars, deployVars>>

\* the files a backup run puts into .pod-backup: studio.db, the redacted env,
\* and pod-info.json with the timestamp and git_sha of the moment
Snapshot ==
    [db |-> activeJobs, env |-> Redact(envFile), timestamp |-> now, git_sha |-> HEAD]

\* if [ ! -f "$DB_PATH" ]; then log "No database found"; exit 0; fi
\* mkdir -p .pod-backup; cp studio.db; sed ... .env > env; cat > pod-info.json
BackupStage(q) ==
    /\ bpc[q] = "stage"
    /\ IF dbExists
       THEN /\ staging' = <<Snapshot>>
            /\ bpc' = [bpc EXCEPT ![q] = "checkout"]
            /\ lastExit' = NoExit
            /\ UNCHANGED <<deployLock, backupLock, CURRENT_BRANCH>>
       ELSE /\ BackupExit(q, "nodb")
            /\ UNCHANGED staging
    /\ UNCHANGED <<backupBranch, remoteBackup>>
    /\ UNCHANGED <<deployLockFile, gitVars, buildVars, podVars, deployVars>>

\* CURRENT_BRANCH=$(git rev-parse --abbrev-ref HEAD)
\* git checkout backups/pod-data | checkout -b ... origin/... | checkout --orphan
\* The script does not stop when the checkout fails (no set -e).
BackupCheckout(q) ==
    /\ bpc[q] = "checkout"
    /\ CURRENT_BRANCH' = [CURRENT_BRANCH EXCEPT ![q] = curBranch]
    /\ \E ok \in BOOLEAN :
         /\ curBranch' = IF ok THEN "backup" ELSE curBranch
         /\ backupBranch' =
              IF ok /\ backupBranch.commits = 0 THEN remoteBackup ELSE backupBranch
    /\ bpc' = [bpc EXCEPT ![q] = "commit"]
    /\ lastExit' = NoExit
    /\ UNCHANGED <<staging, remoteBackup>>
    /\ UNCHANGED <<lockVars, remoteRev, originMain, mainRev, mainExtra, commitPaths,
                   buildVars, podVars, deployVars>>

\* git commit on a branch: one more commit, whose tree is the new tip
Committed(branch, tree) == [commits |-> branch.commits + 1, tip |-> <<tree>>]

\* faulty variant: pod-info.json is left out of the comparison with the tip,
\* and with it the push that only follows a commit
BackupCommitDataOnly(q) ==
    /\ bpc[q] = "commit"
    /\ IF curBranch = "backup"
       THEN /\ IF /\ backupBranch.tip # <<>>
                  /\ backupBranch.tip[1].db = staging[1].db
                  /\ backupBranch.tip[1].env = staging[1].env
               THEN UNCHANGED <<backupBranch, remoteBackup>>
               ELSE /\ backupBranch' = Committed(backupBranch, staging[1])
                    /\ \E pushed \in BOOLEAN :
                         remoteBackup' = IF pushed THEN backupBranch' ELSE remoteBackup
            /\ UNCHANGED mainExtra
       ELSE /\ \E added \in BOOLEAN :
                 mainExtra' = IF added THEN mainExtra + 1 ELSE mainExtra
            /\ \E pushed \in BOOLEAN :
                 remoteBackup' =
                     IF pushed /\ backupBranch.commits > 0 THEN backupBranch
                     ELSE remoteBackup
            /\ UNCHANGED backupBranch
    /\ bpc' = [bpc EXCEPT ![q] = "return"]
    /\ lastExit' = NoExit
    /\ UNCHANGED <<CURRENT_BRANCH, staging>>
    /\ UNCHANGED <<lockVars, remoteRev, originMain, mainRev, commitPaths, curBranch,
                   buildVars, podVars, deployVars>>

\* cp .pod-backup/* . ; git add studio.db env pod-info.json
\* if git diff --cached --quiet; then log "No changes since last backup."
\* else git commit; git push origin backups/pod-data --force || err "Push failed"
\* When the working tree is still on main the commit, if one is made, lands there.
BackupCommit(q) ==
    /\ bpc[q] = "commit"
    /\ IF curBranch = "backup"
       THEN /\ IF backupBranch.tip = staging
               THEN UNCHANGED <<backupBranch, remoteBackup>>
               ELSE /\ backupBranch' = Committed(backupBranch, staging[1])
                    /\ \E pushed \in BOOLEAN :
                         remoteBackup' = IF pushed THEN backupBranch' ELSE remoteBackup
            /\ UNCHANGED mainExtra
       ELSE /\ \E added \in BOOLEAN :
                 mainExtra' = IF added THEN mainExtra + 1 ELSE mainExtra
            /\ \E pushed \in BOOLEAN :
                 remoteBackup' =
                     IF pushed /\ backupBranch.commits > 0 THEN backupBranch
                     ELSE remoteBackup
            /\ UNCHANGED backupBranch
    /\ bpc' = [bpc EXCEPT ![q] = "return"]
    /\ lastExit' = NoExit
    /\ UNCHANGED <<CURRENT_BRANCH, staging>>
    /\ UNCHANGED <<lockVars, remoteRev, originMain, mainRev, commitPaths, curBranch,
                   buildVars, podVars, deployVars>>

\* git checkout "$CURRENT_BRANCH"; rm -rf .pod-backup; log "Done."
BackupReturn(q) ==
    /\ bpc[q] = "return"
    /\ \E ok \in BOOLEAN :
         curBranch' = IF ok THEN CURRENT_BRANCH[q] ELSE curBranch
    /\ staging' = <<>>
    /\ BackupExit(q, "done")
    /\ UNCHANGED <<backupBranch, remoteBackup>>
    /\ UNCHANGED <<deployLockFile, remoteRev, originMain, mainRev, mainExtra,
                   commitPaths, buildVars, podVars, deployVars>>

\* the process is killed or dies at any point after it started
BackupCrash(q) ==
    /\ bpc[q] # "idle"
    /\ BackupExit(q, "crash")
    /\ UNCHANGED <<staging, backupBranch, remoteBackup>>
    /\ UNCHANGED <<deployLockFile, gitVars, buildVars, podVars, deployVars>>

(* ------------------------ restore_backup.sh ------------------------- *)
\* the files of the tip of origin/backups/pod-data
BackupTip == remoteBackup.tip[1]

\* process exit of restore_backup.sh
RestoreExit(reason) ==
    /\ rpc' = "idle"
    /\ lastExit' = <<"restore", reason>>

\* an operator runs  bash scripts/restore_backup.sh
RestoreStart ==
    /\ rpc = "idle"
    /\ rpc' = "fetch"
    /\ lastExit' = NoExit
    /\ UNCHANGED <<dbPre, envPre>>
    /\ UNCHANGED <<lockVars, gitVars, buildVars, dbExists, hasSqlite3, activeJobs, now,
                   envFile>>
    /\ UNCHANGED <<deployVars, backupVars, serviceVars, migrateVars, healthVars,
                   cronVars>>

\* faulty variant: a missing backup branch ends the run without an error status
RestoreFetchQuiet ==
    /\ rpc = "fetch"
    /\ \E net \in BOOLEAN :
         IF net /\ remoteBackup.commits > 0
         THEN rpc' = "db" /\ lastExit' = NoExit
         ELSE RestoreExit("success")
    /\ UNCHANGED <<dbPre, envPre>>
    /\ UNCHANGED <<lockVars, gitVars, buildVars, dbExists, hasSqlite3, activeJobs, now,
                   envFile>>
    /\ UNCHANGED <<deployVars, backupVars, serviceVars, migrateVars, healthVars,
                   cronVars>>

\* git fetch origin "$BACKUP_BRANCH" || { err "No backup branch found"; exit 1; }
RestoreFetch ==
    /\ rpc = "fetch"
    /\ \E net \in BOOLEAN :
         IF net /\ remoteBackup.commits > 0
         THEN rpc' = "db" /\ lastExit' = NoExit
         ELSE RestoreExit("nobranch")
    /\ UNCHANGED <<dbPre, envPre>>
    /\ UNCHANGED <<lockVars, gitVars, buildVars, dbExists, hasSqlite3, activeJobs, now,
                   envFile>>
    /\ UNCHANGED <<deployVars, backupVars, serviceVars, migrateVars, healthVars,
                   cronVars>>

\* git show origin/...:studio.db > "$RESTORE_DIR/studio.db"   (set -e: a failing
\* git show ends the run);  a studio.db in the model is never of size zero, so
\* [ -s ] holds:  cp studio.db studio.db.pre-restore if it exists;  cp the
\* snapshot's studio.db over it
RestoreDb ==
    /\ rpc = "db"
    /\ \E shown \in BOOLEAN :
         IF shown
         THEN /\ dbPre' = IF dbExists THEN <<activeJobs>> ELSE dbPre
              /\ dbExists' = TRUE
              /\ activeJobs' = BackupTip.db
              /\ rpc' = "env"
              /\ lastExit' = NoExit
         ELSE /\ RestoreExit("showfail")
              /\ UNCHANGED <<dbPre, dbExists, activeJobs>>
    /\ UNCHANGED envPre
    /\ UNCHANGED <<lockVars, gitVars, buildVars, hasSqlite3, now, envFile>>
    /\ UNCHANGED <<deployVars, backupVars, serviceVars, migrateVars, healthVars,
                   cronVars>>

\* faulty variant: the existing .env is overwritten without the copy beside it
RestoreEnvNoSibling ==
    /\ rpc = "env"
    /\ \E shown \in BOOLEAN :
         IF shown
         THEN /\ envFile' = IF BackupTip.env # <<>> THEN BackupTip.env ELSE envFile
              /\ UNCHANGED envPre
              /\ rpc' = "done"
              /\ lastExit' = NoExit
         ELSE /\ RestoreExit("showfail")
              /\ UNCHANGED <<envPre, envFile>>
    /\ UNCHANGED dbPre
    /\ UNCHANGED <<lockVars, gitVars, buildVars, dbExists, hasSqlite3, activeJobs, now>>
    /\ UNCHANGED <<deployVars, backupVars, serviceVars, migrateVars, healthVars,
                   cronVars>>

\* git show origin/...:env > "$RESTORE_DIR/env"
\* if [ -s "$RESTORE_DIR/env" ]; then cp .env .env.pre-restore (the .env of the
\* model always exists); cp the snapshot's env over .env
\* else warn "No .env in backup."
RestoreEnv ==
    /\ rpc = "env"
    /\ \E shown \in BOOLEAN :
         IF shown
         THEN /\ IF BackupTip.env # <<>>
                 THEN /\ envPre' = <<envFile>>
                      /\ envFile' = BackupTip.env
                 ELSE UNCHANGED <<envPre, envFile>>
              /\ rpc' = "done"
              /\ lastExit' = NoExit
         ELSE /\ RestoreExit("showfail")
              /\ UNCHANGED <<envPre, envFile>>
    /\ UNCHANGED dbPre
    /\ UNCHANGED <<lockVars, gitVars, buildVars, dbExists, hasSqlite3, activeJobs, now>>
    /\ UNCHANGED <<deployVars, backupVars, serviceVars, migrateVars, healthVars,
                   cronVars>>

\* rm -rf "$RESTORE_DIR"; log "Restore complete."
RestoreDone ==
    /\ rpc = "done"
    /\ RestoreExit("success")
    /\ UNCHANGED <<dbPre, envPre>>
    /\ UNCHANGED <<lockVars, gitVars, buildVars, dbExists, hasSqlite3, activeJobs, now,
                   envFile>>
    /\ UNCHANGED <<deployVars, backupVars, serviceVars, migrateVars, healthVars,
                   cronVars>>

(* ------------------------ setup_volume.sh ---------------------------- *)
\* what setup_volume.sh never touches
MigrateFrame ==
    UNCHANGED <<lockVars, gitVars, buildVars, dbExists, hasSqlite3, activeJobs, now,
                restoreVars, deployVars, backupVars, volumeAttached, supervisorUp,
                healthVars, cronVars>>

\* process exit of setup_volume.sh
MigrateExit(reason) ==
    /\ mpc' = "idle"
    /\ mdone' = {}
    /\ lastExit' = <<"migrate", reason>>

\* the invocation moves on to the next command
MigrateGoto(pc) ==
    /\ mpc' = pc
    /\ lastExit' = NoExit

\* rsync -a src/ dst/ : the files of src land on dst, what only dst has stays
Rsync(src, dst) == IF src = 0 THEN dst ELSE src

\* mv dir dir.bak : renamed when there is no dir.bak, moved into it when there
\* is one, refused when dir.bak already holds a non-empty directory of that name
CanMove(bak) == Len(bak) < 2 \/ bak[2] = 0
Moved(bak, data) == IF Len(bak) = 0 THEN <<data>> ELSE <<bak[1], data>>

\* bash scripts/setup_volume.sh  (startup.sh runs it when /runpod-volume exists)
MigrateStart ==
    /\ mpc = "idle"
    /\ MigrateGoto("volume")
    /\ UNCHANGED <<mdone, studioVars, checkpointVars, logsPath, svcUp, envFile>>
    /\ MigrateFrame

\* Step 1: if [ ! -d "$VOLUME_DIR" ]; then warn; exit 0; fi
\* Step 2: mkdir -p "$VOLUME_DATA/studio" ... (set -e: a failure ends the run)
MigrateVolume ==
    /\ mpc = "volume"
    /\ IF ~volumeAttached
       THEN MigrateExit("novolume")
       ELSE \E ok \in BOOLEAN :
              IF ok THEN MigrateGoto("studio") /\ UNCHANGED mdone
              ELSE MigrateExit("mkdirfail")
    /\ UNCHANGED <<studioVars, checkpointVars, logsPath, svcUp, envFile>>
    /\ MigrateFrame

\* faulty variant: [ -d ] alone, which also holds for a link to a directory
MigrateStudioNoLinkTest ==
    /\ mpc = "studio"
    /\ IF studioPath \in {"dir", "link"}
       THEN MigrateGoto("stop") /\ UNCHANGED <<mdone, studioPath>>
       ELSE \E ok \in BOOLEAN :
              IF ok
              THEN /\ studioPath' = "link"
                   /\ mdone' = mdone \cup {"link"}
                   /\ MigrateGoto("ckpt")
              ELSE MigrateExit("lnfail") /\ UNCHANGED studioPath
    /\ UNCHANGED <<studioData, studioBak, volStudio, checkpointVars, logsPath, svcUp,
                   envFile>>
    /\ MigrateFrame

\* Step 3: if [ -d "$STUDIO_DIR" ] && [ ! -L "$STUDIO_DIR" ] ... migrate
\*         elif [ -L "$STUDIO_DIR" ] ... skip
\*         else ln -s "$VOLUME_DATA/studio" "$STUDIO_DIR"
MigrateStudio ==
    /\ mpc = "studio"
    /\ IF studioPath = "dir"
       THEN MigrateGoto("stop") /\ UNCHANGED <<mdone, studioPath>>
       ELSE IF studioPath = "link"
       THEN MigrateGoto("ckpt") /\ UNCHANGED <<mdone, studioPath>>
       ELSE \E ok \in BOOLEAN :
              IF ok
              THEN /\ studioPath' = "link"
                   /\ mdone' = mdone \cup {"link"}
                   /\ MigrateGoto("ckpt")
              ELSE MigrateExit("lnfail") /\ UNCHANGED studioPath
    /\ UNCHANGED <<studioData, studioBak, volStudio, checkpointVars, logsPath, svcUp,
                   envFile>>
    /\ MigrateFrame

\* if command -v supervisorctl && pgrep -x supervisord; then
\*     supervisorctl stop all || true; sleep 2
MigrateStop ==
    /\ mpc = "stop"
    /\ IF supervisorUp
       THEN /\ \E ok \in BOOLEAN : svcUp' = IF ok THEN {} ELSE svcUp
            /\ mdone' = mdone \cup {"stop"}
       ELSE UNCHANGED <<svcUp, mdone>>
    /\ MigrateGoto("copy")
    /\ UNCHANGED <<studioVars, checkpointVars, logsPath, envFile>>
    /\ MigrateFrame

\* rsync -a "$STUDIO_DIR/" "$VOLUME_DATA/studio/"
MigrateCopy ==
    /\ mpc = "copy"
    /\ \E ok \in BOOLEAN :
         IF ok
         THEN /\ volStudio' = Rsync(studioData, volStudio)
              /\ mdone' = mdone \cup {"copy"}
              /\ MigrateGoto("move")
         ELSE MigrateExit("rsyncfail") /\ UNCHANGED volStudio
    /\ UNCHANGED <<studioPath, studioData, studioBak, checkpointVars, logsPath, svcUp,
                   envFile>>
    /\ MigrateFrame

\* mv "$STUDIO_DIR" "${STUDIO_DIR}.bak"
MigrateMove ==
    /\ mpc = "move"
    /\ \E ok \in BOOLEAN :
         IF ok /\ CanMove(studioBak)
         THEN /\ studioBak' = Moved(studioBak, studioData)
              /\ studioPath' = "absent"
              /\ studioData' = 0
              /\ mdone' = mdone \cup {"move"}
              /\ MigrateGoto("link")
         ELSE MigrateExit("mvfail") /\ UNCHANGED <<studioBak, studioPath, studioData>>
    /\ UNCHANGED <<volStudio, checkpointVars, logsPath, svcUp, envFile>>
    /\ MigrateFrame

\* ln -s "$VOLUME_DATA/studio" "$STUDIO_DIR"
MigrateLink ==
    /\ mpc = "link"
    /\ \E ok \in BOOLEAN :
         IF ok /\ studioPath = "absent"
         THEN /\ studioPath' = "link"
              /\ mdone' = mdone \cup {"link"}
              /\ MigrateGoto("start")
         ELSE MigrateExit("lnfail") /\ UNCHANGED studioPath
    /\ UNCHANGED <<studioData, studioBak, volStudio, checkpointVars, logsPath, svcUp,
                   envFile>>
    /\ MigrateFrame

\* if command -v supervisorctl && pgrep -x supervisord; then
\*     supervisorctl start all || true
MigrateRestart ==
    /\ mpc = "start"
    /\ IF supervisorUp
       THEN /\ \E ok \in BOOLEAN : svcUp' = IF ok THEN Services ELSE svcUp
            /\ mdone' = mdone \cup {"start"}
       ELSE UNCHANGED <<svcUp, mdone>>
    /\ MigrateGoto("ckpt")
    /\ UNCHANGED <<studioVars, checkpointVars, logsPath, envFile>>
    /\ MigrateFrame

\* Step 4: the same three-way test on "$CHECKPOINT_DIR"
MigrateCkpt ==
    /\ mpc = "ckpt"
    /\ IF checkpointPath = "dir"
       THEN MigrateGoto("ckptcopy") /\ UNCHANGED <<mdone, checkpointPath>>
       ELSE IF checkpointPath = "link"
       THEN MigrateGoto("env") /\ UNCHANGED <<mdone, checkpointPath>>
       ELSE \E ok \in BOOLEAN :
              IF ok
              THEN /\ checkpointPath' = "link"
                   /\ mdone' = mdone \cup {"ckptlink"}
                   /\ MigrateGoto("env")
              ELSE MigrateExit("lnfail") /\ UNCHANGED checkpointPath
    /\ UNCHANGED <<checkpointData, checkpointBak, volCheckpoints, studioVars, logsPath,
                   svcUp, envFile>>
    /\ MigrateFrame

\* rsync -a "$CHECKPOINT_DIR/" "$VOLUME_DATA/checkpoints/"
MigrateCkptCopy ==
    /\ mpc = "ckptcopy"
    /\ \E ok \in BOOLEAN :
         IF ok
         THEN /\ volCheckpoints' = Rsync(checkpointData, volCheckpoints)
              /\ mdone' = mdone \cup {"ckptcopy"}
              /\ MigrateGoto("ckptmove")
         ELSE MigrateExit("rsyncfail") /\ UNCHANGED volCheckpoints
    /\ UNCHANGED <<checkpointPath, checkpointData, checkpointBak, studioVars, logsPath,
                   svcUp, envFile>>
    /\ MigrateFrame

\* mv "$CHECKPOINT_DIR" "${CHECKPOINT_DIR}.bak"
MigrateCkptMove ==
    /\ mpc = "ckptmove"
    /\ \E ok \in BOOLEAN :
         IF ok /\ CanMove(checkpointBak)
         THEN /\ checkpointBak' = Moved(checkpointBak, checkpointData)
              /\ checkpointPath' = "absent"
              /\ checkpointData' = 0
              /\ mdone' = mdone \cup {"ckptmove"}
              /\ MigrateGoto("ckptlink")
         ELSE /\ MigrateExit("mvfail")
              /\ UNCHANGED <<checkpointBak, checkpointPath, checkpointData>>
    /\ UNCHANGED <<volCheckpoints, studioVars, logsPath, svcUp, envFile>>
    /\ MigrateFrame

\* ln -s "$VOLUME_DATA/checkpoints" "$CHECKPOINT_DIR"
MigrateCkptLink ==
    /\ mpc = "ckptlink"
    /\ \E ok \in BOOLEAN :
         IF ok /\ checkpointPath = "absent"
         THEN /\ checkpointPath' = "link"
              /\ mdone' = mdone \cup {"ckptlink"}
              /\ MigrateGoto("env")
         ELSE MigrateExit("lnfail") /\ UNCHANGED checkpointPath
    /\ UNCHANGED <<checkpointData, checkpointBak, volCheckpoints, studioVars, logsPath,
                   svcUp, envFile>>
    /\ MigrateFrame

\* the line setup_volume.sh appends to .env
DataDirLine == <<"WYBE_DATA_DIR", "=", "/runpod-volume/wybe_data/studio">>

\* grep -q "^WYBE_DATA_DIR=" "$ENV_FILE"
HasDataDir(file) ==
    \E n \in 1..Len(file) :
        Len(file[n]) >= 2 /\ file[n][1] = "WYBE_DATA_DIR" /\ file[n][2] = "="

\* Step 5: echo "WYBE_DATA_DIR=$VOLUME_DATA/studio" >> .env  unless it is there
MigrateEnv ==
    /\ mpc = "env"
    /\ envFile' = IF HasDataDir(envFile) THEN envFile ELSE Append(envFile, DataDirLine)
    /\ MigrateGoto("logs")
    /\ UNCHANGED <<mdone, studioVars, checkpointVars, logsPath, svcUp>>
    /\ MigrateFrame

\* Step 6: ln -sfn "$VOLUME_DATA/logs" /tmp/intelligenceLayer_logs
\* On a plain directory the link is made inside it, and the directory stays.
MigrateLogs ==
    /\ mpc = "logs"
    /\ \E ok \in BOOLEAN :
         IF ok
         THEN /\ logsPath' = IF logsPath \in {"dir", "dirlinked"} THEN "dirlinked"
                             ELSE "link"
              /\ MigrateGoto("done")
              /\ UNCHANGED mdone
         ELSE MigrateExit("lnfail") /\ UNCHANGED logsPath
    /\ UNCHANGED <<studioVars, checkpointVars, svcUp, envFile>>
    /\ MigrateFrame

\* log "Volume setup complete."
MigrateDone ==
    /\ mpc = "done"
    /\ MigrateExit("success")
    /\ UNCHANGED <<studioVars, checkpointVars, logsPath, svcUp, envFile>>
    /\ MigrateFrame

\* the studio (re)creates its data directory and writes to it: into the plain
\* directory, or through the link onto the volume
StudioWrite ==
    /\ mpc = "idle"
    /\ \E d \in 1..MaxData :
         IF studioPath = "link"
         THEN /\ volStudio' = d /\ volStudio # d
              /\ UNCHANGED <<studioPath, studioData>>
         ELSE /\ studioPath' = "dir"
              /\ studioData' = d /\ studioData # d
              /\ UNCHANGED volStudio
    /\ lastExit' = NoExit
    /\ UNCHANGED <<mpc, mdone, studioBak, checkpointVars, logsPath, svcUp, envFile>>
    /\ MigrateFrame

\* a training run writes checkpoints
CheckpointWrite ==
    /\ mpc = "idle"
    /\ \E d \in 1..MaxData :
         IF checkpointPath = "link"
         THEN /\ volCheckpoints' = d /\ volCheckpoints # d
              /\ UNCHANGED <<checkpointPath, checkpointData>>
         ELSE /\ checkpointPath' = "dir"
              /\ checkpointData' = d /\ checkpointData # d
              /\ UNCHANGED volCheckpoints
    /\ lastExit' = NoExit
    /\ UNCHANGED <<mpc, mdone, checkpointBak, studioVars, logsPath, svcUp, envFile>>
    /\ MigrateFrame

(* ------------------------ health_monitor.sh -------------------------- *)
\* what health_monitor.sh never touches
HealthFrame ==
    UNCHANGED <<lockVars, gitVars, buildVars, dbExists, hasSqlite3, activeJobs, now,
                envFile, restoreVars, migrateVars, cronVars, deployVars, backupVars,
                supervisorUp>>

\* curl -sf -m 5 "$url": a service that is not running cannot answer, one that
\* is running may or may not
Answers(svc, responsive) == svc \in svcUp /\ responsive

\* cron starts the script; declare -A STATUS
HealthStart ==
    /\ hpc = "idle"
    /\ hpc' = "loop"
    /\ lastExit' = NoExit
    /\ UNCHANGED <<hsvc, STATUS, probes, hrestarts, statusFile, svcUp>>
    /\ HealthFrame

\* for svc in "${!SERVICES[@]}": the first probe of the next service, in
\* whatever order the array yields them
\* if curl ...; then STATUS[$svc]="ok"; else warn; (restart follows)
HealthProbe ==
    /\ hpc = "loop"
    /\ \E svc \in Services, responsive \in BOOLEAN :
         /\ STATUS[svc] = "unknown"
         /\ probes' = [probes EXCEPT ![svc] = Append(@, Answers(svc, responsive))]
         /\ IF Answers(svc, responsive)
            THEN /\ STATUS' = [STATUS EXCEPT ![svc] = "ok"]
                 /\ UNCHANGED <<hpc, hsvc>>
            ELSE /\ hsvc' = svc
                 /\ hpc' = "restart"
                 /\ UNCHANGED STATUS
    /\ lastExit' = NoExit
    /\ UNCHANGED <<hrestarts, statusFile, svcUp>>
    /\ HealthFrame

\* supervisorctl restart "$svc" 2>/dev/null || true; sleep 15
HealthRestart ==
    /\ hpc = "restart"
    /\ hrestarts' = [hrestarts EXCEPT ![hsvc] = @ + 1]
    /\ IF supervisorUp
       THEN \E ok \in BOOLEAN :
              svcUp' = IF ok THEN svcUp \cup {hsvc} ELSE svcUp \ {hsvc}
       ELSE UNCHANGED svcUp
    /\ hpc' = "reprobe"
    /\ lastExit' = NoExit
    /\ UNCHANGED <<hsvc, STATUS, probes, statusFile>>
    /\ HealthFrame

\* faulty variant: the second probe's result is not looked at
HealthReprobeOptimistic ==
    /\ hpc = "reprobe"
    /\ \E responsive \in BOOLEAN :
         /\ probes' = [probes EXCEPT ![hsvc] = Append(@, Answers(hsvc, responsive))]
         /\ STATUS' = [STATUS EXCEPT ![hsvc] = "recovered"]
    /\ hsvc' = "none"
    /\ hpc' = "loop"
    /\ lastExit' = NoExit
    /\ UNCHANGED <<hrestarts, statusFile, svcUp>>
    /\ HealthFrame

\* if curl ...; then STATUS[$svc]="recovered"; else crit; STATUS[$svc]="failing"
HealthReprobe ==
    /\ hpc = "reprobe"
    /\ \E responsive \in BOOLEAN :
         /\ probes' = [probes EXCEPT ![hsvc] = Append(@, Answers(hsvc, responsive))]
         /\ STATUS' = [STATUS EXCEPT ![hsvc] =
                          IF Answers(hsvc, responsive) THEN "recovered" ELSE "failing"]
    /\ hsvc' = "none"
    /\ hpc' = "loop"
    /\ lastExit' = NoExit
    /\ UNCHANGED <<hrestarts, statusFile, svcUp>>
    /\ HealthFrame

\* faulty variant: the snapshot is written as soon as the loop is entered,
\* with "unknown" for what was not probed yet
HealthWriteEarly ==
    /\ hpc = "loop"
    /\ statusFile' = <<STATUS>>
    /\ hpc' = "written"
    /\ lastExit' = NoExit
    /\ UNCHANGED <<hsvc, STATUS, probes, hrestarts, svcUp>>
    /\ HealthFrame

\* after the loop: GPU and disk checks, then  cat > "$STATUS_FILE"  with
\* "${STATUS[svc]:-unknown}" for each of the three services
HealthWrite ==
    /\ hpc = "loop"
    /\ \A svc \in Services : STATUS[svc] # "unknown"
    /\ statusFile' = <<STATUS>>
    /\ hpc' = "written"
    /\ lastExit' = NoExit
    /\ UNCHANGED <<hsvc, STATUS, probes, hrestarts, svcUp>>
    /\ HealthFrame

\* the closing log loop; the script ends and its arrays are gone
HealthDone ==
    /\ hpc = "written"
    /\ hpc' = "idle"
    /\ STATUS' = [svc \in Services |-> "unknown"]
    /\ probes' = [svc \in Services |-> <<>>]
    /\ hrestarts' = [svc \in Services |-> 0]
    /\ lastExit' = <<"health", "done">>
    /\ UNCHANGED <<hsvc, statusFile, svcUp>>
    /\ HealthFrame

\* a supervised service dies, or supervisord brings a dead one back
ServiceFlip ==
    /\ \E svc \in Services :
         svcUp' = IF svc \in svcUp THEN svcUp \ {svc}
                  ELSE IF supervisorUp THEN svcUp \cup {svc} ELSE svcUp
    /\ svcUp' # svcUp
    /\ lastExit' = NoExit
    /\ UNCHANGED <<hpc, hsvc, STATUS, probes, hrestarts, statusFile>>
    /\ HealthFrame

(* ------------------------ startup.sh: cron ---------------------------- *)
\* a crontab line is named by the script it runs; "other" is any line that
\* mentions none of them
CronLines == {"auto_deploy.sh", "health_monitor.sh", "backup.sh", "startup.sh", "other"}

\* echo "$CRON_DEPLOY"; echo "$CRON_HEALTH"; echo "$CRON_BACKUP"
ManagedLines == <<"auto_deploy.sh", "health_monitor.sh", "backup.sh">>

\* grep -v 'pat': the lines that do not mention pat
GrepV(lines, pat) == SelectSeq(lines, LAMBDA l : l # pat)

\* what the cron installers never touch
CronFrame ==
    UNCHANGED <<lockVars, gitVars, buildVars, dbExists, hasSqlite3, activeJobs, now,
                envFile, restoreVars, serviceVars, migrateVars, healthVars,
                deployVars, backupVars>>

\* process exit of startup.sh
StartupExit(reason) ==
    /\ spc' = "idle"
    /\ lastExit' = <<"startup", reason>>

\* what startup.sh itself leaves alone outside its build and supervisor stages
StartupFrame ==
    UNCHANGED <<lockVars, gitVars, dbExists, hasSqlite3, activeJobs, now, envFile,
                restoreVars, migrateVars, healthVars, deployVars, backupVars>>

\* the pod boots and runs  bash scripts/startup.sh  (set -e)
StartupStart ==
    /\ spc = "idle"
    /\ spc' = "volume"
    /\ strace' = <<>>
    /\ lastExit' = NoExit
    /\ UNCHANGED <<crontab, envPresent, buildVars, serviceVars>>
    /\ StartupFrame

\* if [ -d /runpod-volume ]; then bash setup_volume.sh || echo WARNING; fi
\* the child is started here
StartupVolume ==
    /\ spc = "volume"
    /\ IF volumeAttached
       THEN spc' = "volwait" /\ strace' = Append(strace, "volume")
       ELSE spc' = "packages" /\ UNCHANGED strace
    /\ lastExit' = NoExit
    /\ UNCHANGED <<crontab, envPresent, buildVars, serviceVars>>
    /\ StartupFrame

\* ... || echo "WARNING: Volume setup failed - continuing without volume"
StartupVolumeDone ==
    /\ spc = "volwait"
    /\ lastExit # NoExit
    /\ strace' = IF ExitStatus(lastExit[2]) # 0 THEN Append(strace, "volwarn") ELSE strace
    /\ spc' = "packages"
    /\ lastExit' = NoExit
    /\ UNCHANGED <<crontab, envPresent, buildVars, serviceVars>>
    /\ StartupFrame

\* apt-get update && apt-get install -y ...  (set -e: a failing install ends the
\* run); the commands after it up to the restore test all end in || true
StartupPackages ==
    /\ spc = "packages"
    /\ \E ok \in BOOLEAN :
         IF ok THEN spc' = "restore" /\ lastExit' = NoExit
         ELSE StartupExit("aptfail")
    /\ UNCHANGED <<strace, crontab, envPresent, buildVars, serviceVars>>
    /\ StartupFrame

\* if [ ! -f .env ] || [ ! -f "$HOME/.wybe_studio/studio.db" ]; then
\*     bash restore_backup.sh 2>/dev/null || echo "No backup found ..."; fi
StartupRestore ==
    /\ spc = "restore"
    /\ IF ~envPresent \/ ~dbExists
       THEN spc' = "restorewait" /\ strace' = Append(strace, "restore")
       ELSE spc' = "install" /\ UNCHANGED strace
    /\ lastExit' = NoExit
    /\ UNCHANGED <<crontab, envPresent, buildVars, serviceVars>>
    /\ StartupFrame

\* ... || echo "No backup found - continuing with fresh setup."
\* a restore that went through has written the .env of the backup, if it had one
StartupRestoreDone ==
    /\ spc = "restorewait"
    /\ lastExit # NoExit
    /\ strace' = IF ExitStatus(lastExit[2]) # 0 THEN Append(strace, "restorewarn")
                 ELSE strace
    /\ envPresent' = (envPresent \/ (ExitStatus(lastExit[2]) = 0 /\ BackupTip.env # <<>>))
    /\ spc' = "install"
    /\ lastExit' = NoExit
    /\ UNCHANGED <<crontab, buildVars, serviceVars>>
    /\ StartupFrame

\* faulty variant: the install and build stage is skipped
StartupInstallLate ==
    /\ spc = "install"
    /\ spc' = "supervisor"
    /\ lastExit' = NoExit
    /\ UNCHANGED <<strace, crontab, envPresent, buildVars, serviceVars>>
    /\ StartupFrame

\* source .env; uv pip install ... || ... || true (twice); node; then
\* npm ci || npm install; npm run build  (set -e: a failing build ends the run);
\* mkdir -p "$LOG_DIR"
StartupInstall ==
    /\ spc = "install"
    /\ strace' = Append(strace, "install")
    /\ \E deps \in BOOLEAN, built \in BOOLEAN :
         /\ depsInstalled' = IF deps THEN mainRev ELSE depsInstalled
         /\ IF built
            THEN webBuilt' = mainRev /\ spc' = "supervisor" /\ lastExit' = NoExit
            ELSE UNCHANGED webBuilt /\ StartupExit("buildfail")
    /\ UNCHANGED <<crontab, envPresent, serviceVars>>
    /\ StartupFrame

\* cp scripts/supervisor/*.conf /etc/supervisor/conf.d/
\* if pgrep -x supervisord; then supervisorctl reread; supervisorctl update
\* else supervisord -c ...; fi;  supervisorctl status
\* (set -e: a failing cp, supervisorctl or supervisord ends the run)
StartupSupervisor ==
    /\ spc = "supervisor"
    /\ strace' = Append(strace, "supervisor")
    /\ \E outcome \in {"ok", "cpfail", "ctlfail", "statusfail"} :
         /\ IF outcome \in {"ok", "statusfail"} /\ ~supervisorUp
            THEN supervisorUp' = TRUE /\ svcUp' \in SUBSET Services
            ELSE UNCHANGED <<supervisorUp, svcUp>>
         /\ IF outcome = "ok" THEN spc' = "cron" /\ lastExit' = NoExit
            ELSE StartupExit(outcome)
    /\ UNCHANGED <<crontab, envPresent, buildVars>>
    /\ StartupFrame

\* ( crontab -l 2>/dev/null | grep -v 'auto_deploy.sh' | grep -v 'health_monitor.sh'
\*       | grep -v 'backup.sh'; echo ...; echo ...; echo ... ) | crontab -
\* The script runs under set -e: when the last grep selects no line it exits 1,
\* the subshell ends before the echoes, and crontab - installs its empty input.
InstallCron ==
    /\ spc = "cron"
    /\ LET kept == GrepV(GrepV(GrepV(crontab, "auto_deploy.sh"), "health_monitor.sh"),
                         "backup.sh")
       IN  crontab' = IF kept = <<>> THEN <<>> ELSE kept \o ManagedLines
    /\ strace' = Append(strace, "cron")
    /\ StartupExit("done")
    /\ UNCHANGED envPresent
    /\ CronFrame

\* install_cron_job of the setup script, under set -euo pipefail:
\* (crontab -l 2>/dev/null | grep -v 'scripts/startup.sh'; echo "$CRON_CMD") | crontab -
InstallReboot ==
    /\ LET kept == GrepV(crontab, "startup.sh")
       IN  IF kept = <<>>
           THEN crontab' = <<>> /\ lastExit' = <<"setup", "cronfail">>
           ELSE crontab' = kept \o <<"startup.sh">> /\ lastExit' = <<"setup", "done">>
    /\ UNCHANGED bootVars
    /\ CronFrame

\* the operator edits the crontab by hand
CronEdit ==
    /\ \E n \in 0..MaxCronLines : \E tab \in [1..n -> CronLines] : crontab' = tab
    /\ crontab' # crontab
    /\ lastExit' = NoExit
    /\ UNCHANGED bootVars
    /\ CronFrame

(* ------------------------ specification ------------------------------- *)
EnvFile0 == << <<"ANTHROPIC_API_KEY", "=", "sk-1">>, <<"FOO", "=", "bar">> >>

\* what every pod starts from: nothing running, the clone at the revision it was
\* built from, no backup branch yet
InitCommon ==
    /\ deployLock = Free
    /\ backupLock = Free
    /\ originMain = 0
    /\ mainRev = 0
    /\ mainExtra = 0
    /\ curBranch = "main"
    /\ webBuilt = 0
    /\ depsInstalled = 0
    /\ hasSqlite3 = FALSE
    /\ activeJobs = 0
    /\ now = 0
    /\ dpc = [p \in DeployProcs |-> "idle"]
    /\ LOCAL_SHA = [p \in DeployProcs |-> 0]
    /\ REMOTE_SHA = [p \in DeployProcs |-> 0]
    /\ CHANGED = [p \in DeployProcs |-> {}]
    /\ RESTART_SERVICES = [p \in DeployProcs |-> {}]
    /\ REBUILT = [p \in DeployProcs |-> {}]
    /\ ddone = [p \in DeployProcs |-> {}]
    /\ bpc = [q \in BackupProcs |-> "idle"]
    /\ CURRENT_BRANCH = [q \in BackupProcs |-> "main"]
    /\ staging = <<>>
    /\ backupBranch = NoBranch
    /\ lastExit = NoExit
    /\ rpc = "idle"
    /\ dbPre = Absent
    /\ envPre = Absent
    /\ hpc = "idle"
    /\ hsvc = "none"
    /\ STATUS = [svc \in Services |-> "unknown"]
    /\ probes = [svc \in Services |-> <<>>]
    /\ hrestarts = [svc \in Services |-> 0]
    /\ statusFile = Absent

\* a pod without a network volume, its services up, no operator tool running
InitTools ==
    /\ supervisorUp = TRUE
    /\ svcUp = Services
    /\ mpc = "idle"
    /\ mdone = {}
    /\ volumeAttached = FALSE
    /\ studioPath = "dir" /\ studioData = 1 /\ studioBak = Absent /\ volStudio = 0
    /\ checkpointPath = "absent" /\ checkpointData = 0 /\ checkpointBak = Absent
    /\ volCheckpoints = 0
    /\ logsPath = "dir"
    /\ crontab = <<>>
    /\ spc = "idle" /\ strace = <<>> /\ envPresent = TRUE

\* a freshly booted pod: no database yet, nothing new upstream, no deploy has run
Init ==
    /\ InitCommon
    /\ deployLockFile = FALSE
    /\ remoteRev = 0
    /\ commitPaths = [r \in 1..MaxRev |-> {}]
    /\ dbExists = FALSE
    /\ envFile = EnvFile0
    /\ remoteBackup = NoBranch
    /\ InitTools

DeployStep(p) ==
    \/ DeployStart(p) \/ DeployAcquire(p) \/ DeployFetch(p) \/ DeployCompare(p)
    \/ DeployGate(p) \/ DeployPull(p) \/ DeployWeb(p)
    \/ DeployDeps(p) \/ DeploySupervisor(p) \/ DeployRestart(p) \/ DeployDone(p)
    \/ DeployCrash(p)

BackupStep(q) ==
    \/ BackupStart(q) \/ BackupAcquire(q) \/ BackupTest(q) \/ BackupTestRelease(q)
    \/ BackupStage(q) \/ BackupCheckout(q) \/ BackupCommit(q) \/ BackupReturn(q)
    \/ BackupCrash(q)

Next ==
    \/ \E p \in DeployProcs : DeployStep(p)
    \/ \E q \in BackupProcs : BackupStep(q)
    \/ UpstreamPush \/ CreateDb \/ InstallSqlite3 \/ JobStart \/ JobEnd \/ ClockTick

\* the whole pod: both scripts, upstream, the studio and the clock
Spec == Init /\ [][Next]_vars

\* auto_deploy.sh alone, with upstream and the studio's training runs
NextDeploy ==
    \/ \E p \in DeployProcs : DeployStep(p)
    \/ UpstreamPush \/ CreateDb \/ InstallSqlite3 \/ JobStart \/ JobEnd
SpecDeploy == Init /\ [][NextDeploy]_vars

\* one backup.sh at a time, with the studio's training runs and the clock, on a
\* pod where auto_deploy.sh may or may not have run before
InitBackup ==
    /\ InitCommon
    /\ deployLockFile \in BOOLEAN
    /\ remoteRev = 0
    /\ commitPaths = [r \in 1..MaxRev |-> {}]
    /\ dbExists = FALSE
    /\ envFile = EnvFile0
    /\ remoteBackup = NoBranch
    /\ InitTools
NextBackup ==
    \/ BackupStep("b1")
    \/ CreateDb \/ JobStart \/ JobEnd \/ ClockTick
SpecBackup == InitBackup /\ [][NextBackup]_vars

\* both scripts, overlapping, on a pod with a database and a commit waiting upstream
InitLease ==
    /\ InitCommon
    /\ deployLockFile = FALSE
    /\ remoteRev = 1
    /\ commitPaths = [r \in 1..MaxRev |-> IF r = 1 THEN {WebPrefix, PyprojectPath} ELSE {}]
    /\ dbExists = TRUE
    /\ envFile = EnvFile0
    /\ remoteBackup = NoBranch
    /\ InitTools
NextLease ==
    \/ \E p \in DeployProcs : DeployStep(p)
    \/ \E q \in BackupProcs : BackupStep(q)
SpecLease == InitLease /\ [][NextLease]_vars

\* restore_backup.sh on a pod with or without a database, against a remote with
\* or without a backup branch; the studio keeps changing the database
RestoreEnvs == {<<>>, EnvFile0, <<<<"WYBE_API_KEY", "=", "k-2">>>>}
RemoteBackups ==
    {NoBranch} \cup
    {Committed(NoBranch, [db |-> d, env |-> Redact(e), timestamp |-> 0, git_sha |-> 0]) :
        d \in 0..MaxJobs, e \in RestoreEnvs}
InitRestore ==
    /\ InitCommon
    /\ deployLockFile = FALSE
    /\ remoteRev = 0
    /\ commitPaths = [r \in 1..MaxRev |-> {}]
    /\ dbExists \in BOOLEAN
    /\ envFile \in RestoreEnvs
    /\ remoteBackup \in RemoteBackups
    /\ InitTools
RestoreStep ==
    \/ RestoreStart \/ RestoreFetch \/ RestoreDb \/ RestoreEnv \/ RestoreDone
NextRestore ==
    \/ RestoreStep
    \/ JobStart \/ JobEnd
SpecRestore == InitRestore /\ [][NextRestore]_vars

\* setup_volume.sh, run any number of times on a pod with a network volume,
\* while the studio and training runs keep writing
InitMigrate ==
    /\ InitCommon
    /\ deployLockFile = FALSE
    /\ remoteRev = 0
    /\ commitPaths = [r \in 1..MaxRev |-> {}]
    /\ dbExists = FALSE
    /\ envFile = EnvFile0
    /\ remoteBackup = NoBranch
    /\ supervisorUp \in BOOLEAN
    /\ svcUp = IF supervisorUp THEN Services ELSE {}
    /\ mpc = "idle"
    /\ mdone = {}
    /\ volumeAttached \in BOOLEAN
    /\ studioPath \in {"dir", "absent"}
    /\ studioData = IF studioPath = "dir" THEN 1 ELSE 0
    /\ studioBak = Absent
    /\ volStudio \in {0, MaxData}
    /\ checkpointPath \in {"dir", "absent"}
    /\ checkpointData = IF checkpointPath = "dir" THEN 1 ELSE 0
    /\ checkpointBak = Absent
    /\ volCheckpoints = 0
    /\ logsPath \in {"dir", "absent"}
    /\ crontab = <<>>
    /\ spc = "idle" /\ strace = <<>> /\ envPresent = TRUE
MigrateStep ==
    \/ MigrateStart \/ MigrateVolume \/ MigrateStudio \/ MigrateStop \/ MigrateCopy
    \/ MigrateMove \/ MigrateLink \/ MigrateRestart \/ MigrateCkpt
    \/ MigrateCkptCopy \/ MigrateCkptMove \/ MigrateCkptLink \/ MigrateEnv
    \/ MigrateLogs \/ MigrateDone
NextMigrate ==
    \/ MigrateStep
    \/ StudioWrite \/ CheckpointWrite
SpecMigrate == InitMigrate /\ [][NextMigrate]_vars

\* health_monitor.sh cycles on a pod whose services come and go
InitHealth ==
    /\ InitCommon
    /\ deployLockFile = FALSE
    /\ remoteRev = 0
    /\ commitPaths = [r \in 1..MaxRev |-> {}]
    /\ dbExists = FALSE
    /\ envFile = EnvFile0
    /\ remoteBackup = NoBranch
    /\ InitTools
HealthStep ==
    \/ HealthStart \/ HealthProbe \/ HealthRestart \/ HealthReprobe
    \/ HealthWrite \/ HealthDone
NextHealth ==
    \/ HealthStep
    \/ ServiceFlip
SpecHealth == InitHealth /\ [][NextHealth]_vars

\* setup_volume.sh run by hand on a live pod, with the volume attached and
\* supervisord up, while one cycle of health_monitor.sh started by cron runs up
\* to the writing of its status file
InitMigrateLive ==
    /\ InitMigrate
    /\ supervisorUp = TRUE
    /\ volumeAttached = TRUE
    /\ studioPath = "dir"
    /\ volStudio = 0
    /\ logsPath = "dir"
NextMigrateLive ==
    \/ MigrateStep
    \/ HealthStart \/ HealthProbe \/ HealthRestart \/ HealthReprobe \/ HealthWrite
SpecMigrateLive == InitMigrateLive /\ [][NextMigrateLive]_vars

BootBackups ==
    {NoBranch,
     Committed(NoBranch, [db |-> 0, env |-> Redact(EnvFile0), timestamp |-> 0,
                          git_sha |-> 0])}
BootPod ==
    /\ InitCommon
    /\ deployLockFile = FALSE
    /\ remoteRev = 0
    /\ commitPaths = [r \in 1..MaxRev |-> {}]
    /\ envFile = EnvFile0
    /\ mpc = "idle"
    /\ mdone = {}
    /\ studioPath = "dir" /\ studioData = 1 /\ studioBak = Absent /\ volStudio = 0
    /\ checkpointPath = "dir" /\ checkpointData = 1 /\ checkpointBak = Absent
    /\ volCheckpoints = 0
    /\ logsPath = "dir"
    /\ spc = "idle" /\ strace = <<>>
\* boots of a pod without volume that has its database and .env and a running
\* supervisord, with the cron installers run again and again on a crontab the
\* operator may edit
InitBoot ==
    /\ BootPod
    /\ dbExists = TRUE
    /\ envPresent = TRUE
    /\ remoteBackup = NoBranch
    /\ supervisorUp = TRUE
    /\ svcUp = IF supervisorUp THEN Services ELSE {}
    /\ volumeAttached = FALSE
    /\ crontab = <<>>
\* startup.sh on pods with and without volume, database, .env, backup branch and
\* running supervisord
InitStartup ==
    /\ BootPod
    /\ dbExists \in BOOLEAN
    /\ envPresent \in BOOLEAN
    /\ remoteBackup \in BootBackups
    /\ supervisorUp \in BOOLEAN
    /\ svcUp = IF supervisorUp THEN Services ELSE {}
    /\ volumeAttached \in BOOLEAN
    /\ crontab \in {<<>>, <<"other">>}
\* the steps of the child setup_volume.sh, until it exits
StartupRunsVolume ==
    /\ spc = "volwait"
    /\ lastExit = NoExit
    /\ MigrateStep

\* the steps of the child restore_backup.sh, until it exits
StartupRunsRestore ==
    /\ spc = "restorewait"
    /\ lastExit = NoExit
    /\ RestoreStep

StartupStep ==
    \/ StartupStart \/ StartupVolume \/ StartupRunsVolume \/ StartupVolumeDone
    \/ StartupPackages \/ StartupRestore \/ StartupRunsRestore \/ StartupRestoreDone
    \/ StartupInstall \/ StartupSupervisor \/ InstallCron
\* this pod never starts a child script; the operator's edits and the setup
\* script come between the boots
NextBoot ==
    \/ StartupStart \/ StartupVolume \/ StartupPackages \/ StartupRestore
    \/ StartupInstall \/ StartupSupervisor \/ InstallCron
    \/ spc = "idle" /\ InstallReboot
    \/ spc = "idle" /\ CronEdit
SpecBoot == InitBoot /\ [][NextBoot]_vars
NextStartup == StartupStep
SpecStartup == InitStartup /\ [][NextStartup]_vars

\* auto_deploy.sh on a clone whose main also gets commits of its own
NextDiverged ==
    \/ \E p \in DeployProcs : DeployStep(p)
    \/ UpstreamPush \/ LocalCommit
SpecDiverged == Init /\ [][NextDiverged]_vars

(* ======================== properties ================================== *)
\* an invocation that is past its flock holds, or held until it ended, the lease
DeployMidFlight(p) == dpc[p] \notin {"idle", "lock"}
BackupMidFlight(q) == bpc[q] \notin {"idle", "lock"}

\* C1: at most one auto_deploy.sh invocation is past its flock on the deploy
\* lease, and at most one backup.sh invocation is past its flock on the backup
\* lease, in every reachable state.
C1_LeaseExclusion ==
    /\ \A p1, p2 \in DeployProcs :
         DeployMidFlight(p1) /\ DeployMidFlight(p2) => p1 = p2
    /\ \A q1, q2 \in BackupProcs :
         BackupMidFlight(q1) /\ BackupMidFlight(q2) => q1 = q2

\* both leases are held while a second invocation of each script is at its flock
C1_Witness ==
    /\ \E p1, p2 \in DeployProcs : DeployMidFlight(p1) /\ dpc[p2] = "lock"
    /\ \E q1, q2 \in BackupProcs : BackupMidFlight(q1) /\ bpc[q2] = "lock"

\* C6: no auto_deploy.sh invocation holds the deploy lease while a backup.sh
\* invocation is between its deploy-in-progress test and its exit.
C6_NoDeployDuringBackup ==
    \A p \in DeployProcs, q \in BackupProcs :
        ~(deployLock = p /\ bpc[q] \in {"stage", "checkout", "commit", "return"})

\* C7: a lease is never held by an invocation that has ended or has not yet
\* taken it; when no invocation is running both leases are free.
C7_LeaseFreeAfterExit ==
    /\ \A p \in DeployProcs : deployLock = p => DeployMidFlight(p)
    /\ \A q \in BackupProcs : backupLock = q => BackupMidFlight(q)
    /\ \A q \in BackupProcs : deployLock = q => bpc[q] = "testheld"
    /\ (\A p \in DeployProcs : dpc[p] = "idle") /\ (\A q \in BackupProcs : bpc[q] = "idle")
          => deployLock = Free /\ backupLock = Free

\* a deploy that held the lease has just ended on a failed build, a backup has
\* ended before, and nothing is running: both leases are free again
C7_Witness ==
    /\ lastExit = <<"deploy", "buildfail">>
    /\ mainRev # 0
    /\ backupBranch.commits > 0
    /\ \A p \in DeployProcs : dpc[p] = "idle"
    /\ \A q \in BackupProcs : bpc[q] = "idle"
    /\ deployLock = Free /\ backupLock = Free

\* paths changed on main since the revision an artifact was built from
PendingPaths(builtFrom) == UNION {commitPaths[r] : r \in (builtFrom + 1)..mainRev}

\* C2: local_revision never equals a revision whose required build step (web
\* asset rebuild, dependency reinstall) has not completed.
C2_RevisionOnlyAfterBuild ==
    /\ WebPrefix \notin PendingPaths(webBuilt)
    /\ PyprojectPath \notin PendingPaths(depsInstalled)

\* C3: an invocation that ends on a failed web build or dependency install has
\* issued no restart and leaves local_revision where it was when it compared.
C3_BuildFailureKeepsRevision ==
    [][\A p \in DeployProcs :
          (/\ dpc[p] \in {"web", "deps"}
           /\ dpc'[p] = "idle"
           /\ lastExit' = <<"deploy", "buildfail">>)
          => "restart" \notin ddone[p] /\ mainRev' = LOCAL_SHA[p]]_vars

\* C4: an invocation with a pending change that is at the gate while the
\* active-jobs count in the database is above zero ends there: no fast-forward,
\* build, re-registration or restart, local_revision unchanged, the deploy lease
\* released, and the change still pending for the next tick.
C4_GatedSkip ==
    [][\A p \in DeployProcs :
          (/\ dpc[p] = "gate"
           /\ dbExists /\ activeJobs > 0
           /\ dpc'[p] # "gate")
          => /\ dpc'[p] = "idle"
             /\ ddone[p] = {}
             /\ mainRev' = mainRev
             /\ deployLock' = Free
             /\ (mainRev # remoteRev => mainRev' # remoteRev')]_vars

\* the steps of auto_deploy.sh that change what is deployed
DeployWorking(p) == dpc[p] \in {"pull", "web", "deps", "supervisor", "restart"}

\* C5: no invocation is at a fast-forward, build, re-registration or restart
\* while the persisted active-jobs count is above zero.
C5_NoDeployWhileJobsRun ==
    \A p \in DeployProcs : DeployWorking(p) => activeJobs = 0

\* C8: an invocation that finds HEAD equal to origin/main ends there: no build,
\* reinstall, re-registration or restart, and local_revision is unchanged.
C8_NoChangeNoEffect ==
    [][\A p \in DeployProcs :
          (dpc[p] = "compare" /\ HEAD = originMain /\ dpc'[p] # "compare")
          => /\ dpc'[p] = "idle"
             /\ ddone[p] = {}
             /\ mainRev' = mainRev /\ webBuilt' = webBuilt
             /\ depsInstalled' = depsInstalled]_vars

\* an invocation has just ended silently on an unchanged revision that is not
\* the one the pod booted with
C8_Witness ==
    /\ lastExit = <<"deploy", "nochange">>
    /\ mainRev = remoteRev /\ mainRev > 0

\* C9: a backup run that stages the same database, configuration and revision
\* as the tip of the backup branch creates no commit.
C9_SecondRunNoCommit ==
    [][(/\ bpc["b1"] = "commit" /\ bpc'["b1"] = "return"
        /\ curBranch = "backup"
        /\ backupBranch.commits > 0
        /\ backupBranch.tip[1].db = staging[1].db
        /\ backupBranch.tip[1].env = staging[1].env
        /\ backupBranch.tip[1].git_sha = staging[1].git_sha)
       => backupBranch'.commits = backupBranch.commits]_vars

(* ------------------------ redaction of arbitrary files ---------------- *)
\* the pieces a line of .env is put together from
Tokens == {"ANTHROPIC_API_KEY", "WYBE_API_KEY", "SECRET_KEY", "FOO", "=", "v"}

RECURSIVE LinesOfLen(_)
LinesOfLen(n) ==
    IF n = 0 THEN {<<>>}
    ELSE {Append(l, t) : l \in LinesOfLen(n - 1), t \in Tokens}

Lines == UNION {LinesOfLen(n) : n \in 0..MaxLineLen}

\* .env files of one line, and of a line followed by an ordinary or a secret one
\* a file that assigns abc123 to one key and keeps FOO=bar beside it
KeyedFile(key) == << <<key, "=", "abc123">>, <<"FOO", "=", "bar">> >>

\* .env files of one line, of a line followed by an ordinary or a secret one,
\* and the two-line files that assign abc123 to a secret or to another key
EnvFiles ==
    {<<>>} \cup {<<l>> : l \in Lines}
           \cup {<<l, m>> : l \in Lines,
                            m \in {<<"FOO", "=", "v">>, <<"WYBE_API_KEY", "=", "v">>}}
           \cup {KeyedFile(k) : k \in SecretKeys \cup {"SECRET_KEY"}}

\* backup.sh up to the staging directory, on any .env
InitRedact ==
    /\ InitCommon
    /\ deployLockFile = FALSE
    /\ remoteRev = 0
    /\ commitPaths = [r \in 1..MaxRev |-> {}]
    /\ dbExists = TRUE
    /\ envFile \in EnvFiles
    /\ remoteBackup = NoBranch
    /\ InitTools
NextRedact ==
    \/ BackupStart("b1")
    \/ BackupAcquire("b1")
    \/ BackupTest("b1")
    \/ BackupStage("b1")
SpecRedact == InitRedact /\ [][NextRedact]_vars

\* the position of the first "=" of a line, 0 when there is none
FirstEq(line) ==
    IF \E i \in 1..Len(line) : line[i] = "="
    THEN CHOOSE i \in 1..Len(line) :
             line[i] = "=" /\ \A j \in 1..(i - 1) : line[j] # "="
    ELSE 0

\* the line is  KEY=...  for a recognized secret KEY
KeyIsSecret(line) == FirstEq(line) = 2 /\ line[1] \in SecretKeys

\* C10 (as claimed): the staged copy has the same lines in the same order; a
\* line whose key is a recognized secret key becomes KEY=REDACTED whatever its
\* value; every other line is copied unchanged.
C10_RedactByKey ==
    staging # <<>> =>
        /\ Len(staging[1].env) = Len(envFile)
        /\ \A n \in 1..Len(envFile) :
              staging[1].env[n] =
                  IF KeyIsSecret(envFile[n])
                  THEN <<envFile[n][1], "=", RedactedToken>>
                  ELSE envFile[n]

\* positions of a line where a recognized key name is followed by "=" and at
\* least one more character
SecretAt(line) ==
    {i \in 1..Len(line) : /\ i + 2 <= Len(line)
                          /\ line[i] \in SecretKeys
                          /\ line[i + 1] = "="}

\* C10 (amended): the staged copy has the same lines in the same order; a line
\* that contains, anywhere, a recognized key name followed by "=" and a
\* non-empty rest is kept up to the first such "=" and continued with
\* REDACTED; every other line is copied unchanged.
C10_RedactByOccurrence ==
    staging # <<>> =>
        /\ Len(staging[1].env) = Len(envFile)
        /\ \A n \in 1..Len(envFile) :
              LET line == envFile[n]
                  out == staging[1].env[n]
              IN  IF SecretAt(line) = {}
                  THEN out = line
                  ELSE \E i \in SecretAt(line) :
                          /\ \A j \in SecretAt(line) : i <= j
                          /\ Len(out) = i + 2
                          /\ \A k \in 1..(i + 1) : out[k] = line[k]
                          /\ out[i + 2] = RedactedToken

\* a file has been staged whose first line carries a secret under a longer key
\* name and whose second line is an ordinary secret assignment
C10_Witness ==
    /\ staging # <<>>
    /\ Len(envFile) = 2
    /\ SecretAt(envFile[1]) = {2}
    /\ KeyIsSecret(envFile[2])
    /\ staging[1].env[2] = <<"WYBE_API_KEY", "=", RedactedToken>>

\* the staged copy of the configuration file, as a set of lines
StagedLines == {staging[1].env[n] : n \in 1..Len(staging[1].env)}

\* C11 (as claimed): the file with SECRET_KEY=abc123 and FOO=bar is staged with
\* SECRET_KEY=REDACTED, without abc123 anywhere, and with FOO=bar verbatim.
C11_SecretKeyRedacted ==
    (staging # <<>> /\ envFile = KeyedFile("SECRET_KEY")) =>
        /\ <<"SECRET_KEY", "=", RedactedToken>> \in StagedLines
        /\ \A l \in StagedLines : \A i \in 1..Len(l) : l[i] # "abc123"
        /\ <<"FOO", "=", "bar">> \in StagedLines

\* C11 (amended): the file with K=abc123 and FOO=bar, K one of the keys the
\* backup recognizes (ANTHROPIC_API_KEY, WYBE_API_KEY), is staged with
\* K=REDACTED, without abc123 anywhere, and with FOO=bar verbatim; the file
\* with SECRET_KEY=abc123, a key the backup does not recognize, is staged as
\* it is.
C11_RecognizedKeyRedacted ==
    staging # <<>> =>
        /\ \A k \in SecretKeys :
             envFile = KeyedFile(k) =>
                /\ <<k, "=", RedactedToken>> \in StagedLines
                /\ \A l \in StagedLines : \A i \in 1..Len(l) : l[i] # "abc123"
                /\ <<"FOO", "=", "bar">> \in StagedLines
        /\ (envFile = KeyedFile("SECRET_KEY") => staging[1].env = envFile)

\* the file that assigns abc123 to WYBE_API_KEY has been staged
C11_Witness ==
    /\ staging # <<>>
    /\ envFile = KeyedFile("WYBE_API_KEY")
    /\ staging[1].env[1] = <<"WYBE_API_KEY", "=", RedactedToken>>

Migrated ==
    /\ studioPath = "link"
    /\ checkpointPath = "link"
    /\ logsPath \in {"link", "dirlinked"}
    /\ HasDataDir(envFile)

C14_StatusFromProbes ==
    \A svc \in Services :
        /\ Len(probes[svc]) <= 2
        /\ hrestarts[svc] <= 1
        /\ STATUS[svc] = "ok" <=> probes[svc] = <<TRUE>>
        /\ STATUS[svc] = "ok" => hrestarts[svc] = 0
        /\ STATUS[svc] = "recovered" <=> probes[svc] = <<FALSE, TRUE>>
        /\ STATUS[svc] = "failing" <=> probes[svc] = <<FALSE, FALSE>>
        /\ STATUS[svc] \in {"recovered", "failing"} => hrestarts[svc] = 1
        /\ STATUS[svc] = "unknown" =>
              \/ probes[svc] = <<>> /\ hrestarts[svc] = 0
              \/ probes[svc] = <<FALSE>> /\ hsvc = svc

\* a cycle has written a snapshot with one service of each status
C14_Witness ==
    /\ hpc = "written"
    /\ \E a, b, c \in Services :
         /\ STATUS[a] = "ok" /\ STATUS[b] = "recovered" /\ STATUS[c] = "failing"
         /\ hrestarts[a] = 0 /\ hrestarts[b] = 1 /\ hrestarts[c] = 1
    /\ statusFile = <<STATUS>>

\* what a deploy must do for a set of changed paths
Classified(p, paths) ==
    /\ "webbuild" \in ddone[p] <=> WebPrefix \in paths
    /\ "depinstall" \in ddone[p] <=> PyprojectPath \in paths
    /\ "supconf" \in ddone[p] <=> SupervisorPrefix \in paths
    /\ RESTART_SERVICES[p] =
          (IF WebPrefix \in paths THEN {"wybe-web"} ELSE {})
             \cup (IF ApiPrefix \in paths THEN {"wybe-api"} ELSE {})
             \cup (IF FrontendPrefix \in paths THEN {"wybe-studio"} ELSE {})
    /\ "restart" \in ddone[p] <=> RESTART_SERVICES[p] # {}

\* C15: a deploy that reaches its end has rebuilt the web assets iff a path
\* under web/ changed between the revision it started from and the one it
\* fast-forwarded to, reinstalled dependencies iff pyproject.toml changed,
\* re-registered the supervisor configs iff scripts/supervisor/ changed, and
\* restarted exactly the services whose prefix (web/, api/, frontend/) changed.
C15_DeployClassification ==
    \A p \in DeployProcs :
        dpc[p] = "done" => Classified(p, DiffNames(LOCAL_SHA[p], mainRev))

\* C16: an auto_deploy.sh or backup.sh invocation that runs its flock -n while
\* the lease is held ends in that very step with status 0: it does not go back
\* to the flock, and it has fetched, fast-forwarded, built, restarted, switched
\* branch, committed and pushed nothing.
C16_ContentionExit ==
    [][/\ \A p \in DeployProcs :
            (/\ dpc[p] = "lock" /\ deployLock # Free
             /\ dpc'[p] # "lock" /\ lastExit' # <<"deploy", "crash">>)
            => /\ dpc'[p] = "idle"
               /\ lastExit' = <<"deploy", "contended">>
               /\ ExitStatus(lastExit'[2]) = 0
               /\ ddone[p] = {}
               /\ UNCHANGED <<deployLock, backupLock, gitVars, buildVars, staging,
                              backupBranch, remoteBackup>>
       /\ \A q \in BackupProcs :
            (/\ bpc[q] = "lock" /\ backupLock # Free
             /\ bpc'[q] # "lock" /\ lastExit' # <<"backup", "crash">>)
            => /\ bpc'[q] = "idle"
               /\ lastExit' = <<"backup", "contended">>
               /\ ExitStatus(lastExit'[2]) = 0
               /\ UNCHANGED <<deployLock, backupLock, gitVars, buildVars, staging,
                              backupBranch, remoteBackup>>]_vars

\* a deploy invocation has just ended on a held lease while the holder is still
\* at work, and a backup invocation stands at its flock with the backup lease held
C16_Witness ==
    /\ lastExit = <<"deploy", "contended">>
    /\ \E p \in DeployProcs : deployLock = p /\ DeployMidFlight(p)
    /\ \E q1, q2 \in BackupProcs : backupLock = q1 /\ bpc[q2] = "lock"

\* a backup.sh invocation holds the deploy lease only inside its test
TestLockOnly == \A q \in BackupProcs : deployLock = q => bpc[q] = "testheld"

\* C17: a backup.sh invocation that tests the deploy lease while it is held ends
\* in that step with status 0, with no staging copy, branch switch, commit or
\* push; one whose test acquire succeeds gives the lease back in its next step,
\* before any staging or branch switch, and never holds it at any other time.
C17_DeployLeaseTest ==
    [][/\ TestLockOnly /\ TestLockOnly'
       /\ \A q \in BackupProcs :
            /\ (/\ bpc[q] = "test" /\ deployLock # Free
                /\ bpc'[q] # "test" /\ lastExit' # <<"backup", "crash">>)
               => /\ bpc'[q] = "idle"
                  /\ lastExit' = <<"backup", "deploybusy">>
                  /\ ExitStatus(lastExit'[2]) = 0
                  /\ UNCHANGED <<staging, gitVars, backupBranch, remoteBackup>>
            /\ (bpc[q] = "test" /\ deployLock' = q)
               => bpc'[q] = "testheld" /\ UNCHANGED <<staging, curBranch>>
            /\ (bpc[q] = "testheld" /\ bpc'[q] # "testheld")
               => deployLock' = Free /\ UNCHANGED <<staging, gitVars, backupBranch>>]_vars

\* a backup has been skipped because a deploy holds the lease, after an earlier
\* backup passed the test on the existing lock file and committed a snapshot of
\* the deployed revision
C17_Witness ==
    /\ lastExit = <<"backup", "deploybusy">>
    /\ \E p \in DeployProcs : deployLock = p
    /\ backupBranch.commits > 0
    /\ backupBranch.tip[1].git_sha = 1

\* C18: a backup.sh invocation that has switched the working tree to the backup
\* branch and runs to its last line leaves the tree on the branch it found at
\* its start, whether it committed or not and whether the push went through or
\* not, and the backup lease is free once it has ended.
C18_BackupReturnsToBranch ==
    [][\A q \in BackupProcs :
          (/\ bpc[q] \in {"commit", "return"}
           /\ curBranch = "backup" /\ CURRENT_BRANCH[q] # "backup"
           /\ bpc'[q] = "idle" /\ lastExit' = <<"backup", "done">>)
          => curBranch' = CURRENT_BRANCH[q] /\ backupLock' = Free]_vars

\* setup_volume.sh is between its stop of all services and the creation of the
\* redirect for the studio directory
InStudioMove == mpc \in {"copy", "move", "link"} /\ "stop" \in mdone

\* C19: once the services are stopped for the move of the studio directory, no
\* supervised service runs until the copy is done and the redirect is in place,
\* whatever health_monitor.sh does meanwhile.
C19_ServicesStayStopped ==
    [][(InStudioMove /\ svcUp = {} /\ InStudioMove') => svcUp' = {}]_vars

\* the number of lines of the crontab that run a script
Registrations(script) == Len(SelectSeq(crontab, LAMBDA l : l = script))

\* C20: whenever startup.sh has installed its cron jobs, however often, the
\* crontab holds exactly one line for each of auto_deploy.sh, health_monitor.sh
\* and backup.sh.
C20_OneRegistrationEach ==
    lastExit = <<"startup", "done">> =>
        \A i \in 1..Len(ManagedLines) : Registrations(ManagedLines[i]) = 1

\* C21: a restore_backup.sh run whose fetch finds no backup branch on the remote
\* ends in that step with an error status, and the database, the .env and both
\* .pre-restore siblings are as they were.
C21_NoBranchNoChange ==
    [][(rpc = "fetch" /\ remoteBackup.commits = 0 /\ rpc' # "fetch")
          => /\ rpc' = "idle"
             /\ lastExit' = <<"restore", "nobranch">>
             /\ ExitStatus(lastExit'[2]) # 0
             /\ UNCHANGED <<dbExists, activeJobs, envFile, dbPre, envPre>>]_vars

\* a restore has just failed on a remote without backup branch, on a pod that
\* has a database and no .pre-restore sibling
C21_Witness ==
    /\ lastExit = <<"restore", "nobranch">>
    /\ remoteBackup = NoBranch
    /\ dbExists
    /\ dbPre = Absent /\ envPre = Absent

Diverged == mainExtra > 0 /\ remoteRev > mainRev

\* C24: an invocation that runs its pull on a diverged main ends in that step
\* with an error status; the revision and the local commits are as they were,
\* and it has built, re-registered and restarted nothing.
C24_DivergedPullFails ==
    [][\A p \in DeployProcs :
          (/\ dpc[p] = "pull" /\ Diverged
           /\ dpc'[p] # "pull" /\ lastExit' # <<"deploy", "crash">>)
          => /\ dpc'[p] = "idle"
             /\ lastExit' = <<"deploy", "pullfail">>
             /\ ExitStatus(lastExit'[2]) # 0
             /\ ddone[p] = {}
             /\ UNCHANGED <<mainRev, mainExtra, curBranch, webBuilt, depsInstalled>>]_vars

\* an invocation has just failed its pull on a diverged main
C24_Witness ==
    /\ lastExit = <<"deploy", "pullfail">>
    /\ Diverged
    /\ originMain = remoteRev

\* C25: the restart phase requests a restart for every service marked during
\* the build phase and for no other; whichever of these restarts fail, each
\* failure is logged, the phase still ends with all requests made, the revision
\* stays where the pull put it, and the invocation ends with status 0.
C25_RestartEveryMarked ==
    [][\A p \in DeployProcs :
          /\ (/\ dpc[p] = "restart" /\ dpc'[p] # "restart"
              /\ lastExit' # <<"deploy", "crash">>)
             => /\ dpc'[p] = "done"
                /\ \A svc \in Services :
                      /\ RestartMark(svc) \in ddone'[p] <=> svc \in RESTART_SERVICES[p]
                      /\ WarnMark(svc) \in ddone'[p] => RestartMark(svc) \in ddone'[p]
                /\ mainRev' = mainRev
          /\ (/\ dpc[p] = "done" /\ dpc'[p] # "done"
              /\ lastExit' # <<"deploy", "crash">>)
             => /\ lastExit' = <<"deploy", "success">>
                /\ ExitStatus(lastExit'[2]) = 0
                /\ mainRev' = mainRev]_vars

\* the restart of one of two marked services has failed and both were requested
C25_Witness ==
    \E p \in DeployProcs :
        /\ dpc[p] = "done"
        /\ RESTART_SERVICES[p] = {"wybe-web", "wybe-api"}
        /\ WarnMark("wybe-web") \in ddone[p]
        /\ WarnMark("wybe-api") \notin ddone[p]
        /\ RestartMark("wybe-api") \in ddone[p]

\* the tip of the local backup branch has not reached the remote
Unpushed == backupBranch.commits > 0 /\ remoteBackup # backupBranch

C27_NoBackupCommitOnMain ==
    [][\A q \in BackupProcs :
          (bpc[q] = "commit" /\ bpc'[q] = "return")
          => /\ mainExtra' = mainExtra
             /\ backupBranch' # backupBranch => curBranch = "backup"]_vars

\* C28: when setup_volume.sh has run to its end with the volume attached, the
\* studio directory, the checkpoints directory and the log directory are each
\* a link to the volume.
C28_AllPathsRedirected ==
    lastExit = <<"migrate", "success">> =>
        studioPath = "link" /\ checkpointPath = "link" /\ logsPath = "link"

\* C29: a setup_volume.sh invocation that has requested the stop of all services
\* has requested their start by the time it ends, however it ends.
C29_StartAfterStop ==
    [][(mpc # "idle" /\ mpc' = "idle" /\ "stop" \in mdone) => "start" \in mdone]_vars

\* C30: setup_volume.sh never removes what it has moved aside: the content of
\* the studio directory is in the .bak sibling once it is moved, and stays
\* there; when the link cannot be made after the copy and the move, the run
\* ends with an error status with the .bak and the copy on the volume in place;
\* and no later run copies a second time for a path that has a .bak.
C30_OriginalKept ==
    [][/\ (mpc = "move" /\ mpc' = "link") =>
              studioBak' # Absent /\ studioBak'[Len(studioBak')] = studioData
       /\ studioBak # Absent =>
              Len(studioBak') >= Len(studioBak) /\ studioBak'[1] = studioBak[1]
       /\ (mpc = "link" /\ mpc' = "idle") =>
              /\ ExitStatus(lastExit'[2]) # 0
              /\ studioBak' = studioBak /\ studioBak # Absent
              /\ volStudio' = volStudio /\ "copy" \in mdone
       /\ ~(mpc = "copy" /\ studioBak # Absent /\ mpc' = "move")]_vars

\* C31: a cycle of health_monitor.sh writes the status file once, after every
\* service was probed, with one of ok, recovered, failing for each of the three
\* services, and ends only after that write; a service found failing leaves the
\* cycle able to probe the next service or to write the file.
Verdicts == {"ok", "recovered", "failing"}
C31_OneSnapshotPerCycle ==
    /\ [](hpc = "loop" => ENABLED (HealthProbe \/ HealthWrite))
    /\ [][/\ (hpc # "written" /\ hpc' = "written") =>
                /\ hpc = "loop"
                /\ \A svc \in Services : probes[svc] # <<>> /\ STATUS[svc] \in Verdicts
                /\ statusFile' = <<STATUS>>
                /\ DOMAIN statusFile'[1] = Services
          /\ hpc = "written" => statusFile' = statusFile
          /\ hpc # "loop" => statusFile' = statusFile
          /\ (hpc # "idle" /\ hpc' = "idle") => hpc = "written"]_vars
\* a cycle wrote its snapshot with one service failing and the two others ok
C31_Witness ==
    /\ hpc = "written"
    /\ statusFile = <<STATUS>>
    /\ \E svc \in Services :
         /\ STATUS[svc] = "failing"
         /\ \A o \in Services \ {svc} : STATUS[o] = "ok"

\* C32: a startup.sh run enters its stages in the order volume setup, restore,
\* install and build, supervisor, cron jobs; the restore is attempted only when
\* the .env or the database is missing; a failed volume setup or restore leaves
\* the run going, and a run that ends well has gone through install and build,
\* supervisor and cron jobs.
StageOrder ==
    <<"volume", "volwarn", "restore", "restorewarn", "install", "supervisor", "cron">>
StageRank(stage) == CHOOSE i \in DOMAIN StageOrder : StageOrder[i] = stage
Entered(trace, stage) == \E i \in DOMAIN trace : trace[i] = stage
C32_StartupOrder ==
    /\ [](\A i, j \in DOMAIN strace :
             i < j => StageRank(strace[i]) < StageRank(strace[j]))
    /\ [][/\ (~Entered(strace, "restore") /\ Entered(strace', "restore")) =>
                ~envPresent \/ ~dbExists
          /\ (spc = "volwait" /\ spc' # "volwait") => spc' = "packages"
          /\ (spc = "restorewait" /\ spc' # "restorewait") => spc' = "install"
          /\ lastExit' = <<"startup", "done">> =>
                /\ Entered(strace', "install") /\ Entered(strace', "supervisor")
                /\ Entered(strace', "cron")
                /\ Entered(strace', "volume") <=> volumeAttached]_vars
\* a run has ended well after both the volume setup and the restore failed
C32_Witness ==
    /\ lastExit = <<"startup", "done">>
    /\ strace = StageOrder

\* C33: whenever an auto_deploy.sh invocation has ended (other than by being
\* killed), none is under way, and the checkout is at the remote's revision,
\* every web build and dependency install that the paths changed up to that
\* revision call for has been done.
C33_NoChangeConsumedUnapplied ==
    (/\ lastExit # NoExit
     /\ lastExit[1] = "deploy" /\ lastExit[2] # "crash"
     /\ \A p \in DeployProcs : dpc[p] = "idle"
     /\ curBranch = "main" /\ mainExtra = 0 /\ mainRev = remoteRev)
    => /\ WebPrefix \notin PendingPaths(webBuilt)
       /\ PyprojectPath \notin PendingPaths(depsInstalled)

\* C34: an auto_deploy.sh invocation ends at its flock -n as contended only
\* while another auto_deploy.sh invocation holds the deploy lock.
C34_OnlyDeployContends ==
    [][\A p \in DeployProcs :
          (/\ dpc[p] = "lock" /\ dpc'[p] = "idle"
           /\ lastExit' = <<"deploy", "contended">>)
          => deployLock \in DeployProcs \ {p}]_vars

\* C35: whenever no backup.sh invocation is under way, whether the last one ended
\* normally, was killed, or failed a git checkout, the checkout is on main.
C35_OnMainBetweenBackups ==
    (\A q \in BackupProcs : bpc[q] = "idle") => curBranch = "main"

\* C36: what a .pre-restore sibling holds is never lost from the pod: after
\* every step the content of studio.db.pre-restore is still in that sibling or
\* in studio.db, and the content of .env.pre-restore still in that sibling or
\* in .env.
C36_PreRestoreKept ==
    [][/\ dbPre # Absent =>
             \/ dbPre' = dbPre
             \/ dbExists' /\ activeJobs' = dbPre[1]
       /\ envPre # Absent =>
             \/ envPre' = envPre
             \/ envFile' = envPre[1]]_vars

\* C37: no step of setup_volume.sh changes data that is already on the volume:
\* what the volume holds for the studio directory and for the checkpoints is
\* the same after every step of a run as before it.
C37_VolumeDataUntouched ==
    [][mpc # "idle" =>
          /\ volStudio # 0 => volStudio' = volStudio
          /\ volCheckpoints # 0 => volCheckpoints' = volCheckpoints]_vars

\* the file with the value of a secret assignment replaced
WithValue(line, val) == IF KeyIsSecret(line) THEN SubSeq(line, 1, 2) \o val ELSE line
\* the files that differ from a file at most in the values of its secret
\* assignments, each value taken from vals
Variants(file, vals) ==
    {[n \in 1..Len(file) |-> WithValue(file[n], choice[n])] :
        choice \in [1..Len(file) -> vals]}
SecretValues == {<<"v">>, <<"abc123">>, <<"v", "=">>}
\* the file with only the secret assignments of a non-empty value open to change
ValuedVariants(file) ==
    {[n \in 1..Len(file) |->
         IF Len(file[n]) > 2 THEN WithValue(file[n], choice[n]) ELSE file[n]] :
        choice \in [1..Len(file) -> SecretValues]}

\* C38 (as claimed): every file that differs from the .env only in the values,
\* empty ones included, of recognized secret keys has the same redacted copy
\* as the one staged.
C38_CopyHidesValues ==
    staging # <<>> =>
        \A other \in Variants(envFile, SecretValues \cup {<<>>}) :
            Redact(other) = staging[1].env

\* C38 (amended): every file that differs from the .env only in the non-empty
\* values of recognized secret keys, each replaced by a non-empty value, has
\* the same redacted copy as the one staged.
C38_CopyHidesNonEmptyValues ==
    staging # <<>> =>
        \A other \in ValuedVariants(envFile) : Redact(other) = staging[1].env
\* a file with both secret keys assigned has been staged
C38_Witness ==
    /\ staging # <<>>
    /\ envFile = << <<"ANTHROPIC_API_KEY", "=", "v">>, <<"WYBE_API_KEY", "=", "v">> >>
    /\ staging[1].env = << <<"ANTHROPIC_API_KEY", "=", RedactedToken>>,
                           <<"WYBE_API_KEY", "=", RedactedToken>> >>
    /\ Cardinality(ValuedVariants(envFile)) = 9

====
